---- MODULE Spec2Model ----
(***************************************************************************)
(* Reconciliation of an ECR Repository: the update path                    *)
(* (customUpdateRepository and its attribute steps), the read that         *)
(* rebuilds the latest snapshot (sdkFind, setResourceAdditionalFields),    *)
(* the tag delta, the creation (sdkCreate and its hook) and the            *)
(* conditions (updateConditions).                                          *)
(*                                                                         *)
(* A Go pointer is a sequence of length 0 (nil) or 1 (the pointee).        *)
(***************************************************************************)
EXTENDS Integers, Sequences, FiniteSets, TLC

VARIABLES
    desired,    \* the snapshot (resource.ko) handed to the operation
    remote,     \* the state of the repository held by the ECR service
    latest,     \* the latest snapshot, read from the service at pass start;
                \* in the read and conditions specifications the snapshot
                \* before the last step
    delta,      \* the change set: the set of attribute paths that differ
    updated,    \* the snapshot the running operation builds (`updated`, `ko`)
    pc,         \* position of the operation: the call it is about to issue
    calls,      \* remote mutating calls issued in this pass, in issue order
    result,     \* what the operation returned: (snapshot, error)
    prevOK,     \* the previous pass returned without error
    resp,       \* the answer of the remote read call last made
    ctx,        \* the context of the pass: "live" or "cancelled"
    pkg,        \* the package-level variables, shared by every pass
    peer        \* the pass of another resource in the same process

vars ==
    <<desired, remote, latest, delta, updated, pc, calls, result, prevOK, resp,
      ctx, pkg, peer>>

-----------------------------------------------------------------------------
(* Pointers *)

Nil == <<>>
Ptr(v) == <<v>>
Deref(p) == p[1]

-----------------------------------------------------------------------------
(* Bounds and value domains *)

\* longest tag list of a snapshot in the reconcile specification
MaxPassTags == 1
\* longest tag list in the tag synchronization specification
MaxTags == 2

PassTagKeys == {"a", "b"}
TagKeys == {"a", "b", "c"}

\* error codes a remote mutating call can fail with
RemoteErrors == {"ServerException", "InvalidParameterException"}
\* outcome of a remote call: nil or an error
Outcomes == {Nil} \cup {Ptr(e) : e \in RemoteErrors}

RepositoryName == "repo"
RepositoryArn == "arn:repo"

\* injective sequences over S of length at most n
RECURSIVE SeqsUpTo(_, _)
SeqsUpTo(S, n) ==
    IF n = 0 THEN {<<>>}
    ELSE LET shorter == SeqsUpTo(S, n - 1)
         IN  shorter \cup
             {Append(s, x) : s \in {t \in shorter : Len(t) = n - 1}, x \in S}

\* tag lists keyed by Key: no key occurs twice
TagLists(keys, values, n) ==
    {ts \in SeqsUpTo([Key : keys, Value : values], n) :
        \A i, j \in 1..Len(ts) : i # j => ts[i].Key # ts[j].Key}

-----------------------------------------------------------------------------
(* Set-Delta Engine: the tag delta *)

\* variant: two string pointers are equal when both are nil or both point
\* to the same text
equalStrings_Strict(a, b) == a = b

\* blank-vs-nil equivalence of two string pointers
equalStrings(a, b) ==
    IF a = Nil \/ a = Ptr("")
    THEN b = Nil \/ b = Ptr("")
    ELSE b # Nil /\ Deref(a) = Deref(b)

HasKey(tags, k) == \E i \in 1..Len(tags) : tags[i].Key = k

\* the first tag of `tags` whose key is k
TagOf(tags, k) ==
    tags[CHOOSE i \in 1..Len(tags) :
            /\ tags[i].Key = k
            /\ \A j \in 1..(i - 1) : tags[j].Key # k]

\* variant: every key held by both lists counts as updated
computeTagsDelta_UpdatedAlways(a, b) ==
    [added   |-> SelectSeq(b, LAMBDA t : ~HasKey(a, t.Key)),
     updated |-> LET hit == SelectSeq(a, LAMBDA t : HasKey(b, t.Key))
                 IN  [i \in 1..Len(hit) |-> TagOf(b, hit[i].Key)],
     removed |-> LET gone == SelectSeq(a, LAMBDA t : ~HasKey(b, t.Key))
                 IN  [i \in 1..Len(gone) |-> gone[i].Key]]

\* computeTagsDelta(a, b): a is the old (latest) list, b the new (desired) one.
\* added: tags of b whose key a lacks; updated: for each tag of a whose key b
\* holds with another value, b's tag; removed: the keys of a that b lacks.
computeTagsDelta(a, b) ==
    [added   |-> SelectSeq(b, LAMBDA t : ~HasKey(a, t.Key)),
     updated |-> LET hit == SelectSeq(a, LAMBDA t :
                                /\ HasKey(b, t.Key)
                                /\ ~equalStrings(t.Value, TagOf(b, t.Key).Value))
                 IN  [i \in 1..Len(hit) |-> TagOf(b, hit[i].Key)],
     removed |-> LET gone == SelectSeq(a, LAMBDA t : ~HasKey(b, t.Key))
                 IN  [i \in 1..Len(gone) |-> gone[i].Key]]

\* sdkTagsFromResourceTags: resource tags ([]*Tag) to SDK tags, in order
sdkTagsFromResourceTags(rtags) ==
    [i \in 1..Len(rtags) |-> [Key |-> rtags[i].Key, Value |-> rtags[i].Value]]

-----------------------------------------------------------------------------
(* Field-Delta Engine *)

\* customPreCompare: the tag set is compared through the tag delta
customPreCompare(a, b) ==
    LET d == computeTagsDelta(b.Spec.Tags, a.Spec.Tags)
    IN  IF Len(d.added) > 0 \/ Len(d.updated) > 0 \/ Len(d.removed) > 0
        THEN {"Spec.Tags"} ELSE {}

\* variant: the generated comparison also compares Spec.Tags, as lists
TagsCompareIsIgnored_No == FALSE

\* fields.Tags.compare.is_ignored: the generated comparison skips Spec.Tags
TagsCompareIsIgnored == TRUE

\* newResourceDelta(a, b): the attribute paths at which desired a and latest b
\* differ; string attributes compare under blank-vs-nil equivalence
newResourceDelta(a, b) ==
    customPreCompare(a, b)
    \cup (IF ~TagsCompareIsIgnored /\ a.Spec.Tags # b.Spec.Tags
          THEN {"Spec.Tags"} ELSE {})
    \cup (IF a.Spec.ImageScanningConfiguration # b.Spec.ImageScanningConfiguration
          THEN {"Spec.ImageScanningConfiguration"} ELSE {})
    \cup (IF ~equalStrings(a.Spec.ImageTagMutability, b.Spec.ImageTagMutability)
          THEN {"Spec.ImageTagMutability"} ELSE {})
    \cup (IF ~equalStrings(a.Spec.LifecyclePolicy, b.Spec.LifecyclePolicy)
          THEN {"Spec.LifecyclePolicy"} ELSE {})
    \cup (IF ~equalStrings(a.Spec.Policy, b.Spec.Policy)
          THEN {"Spec.Policy"} ELSE {})

\* ackcompare.Delta.DifferentAt
DifferentAt(d, path) == path \in d

-----------------------------------------------------------------------------
(* The ECR service: effect of a successful mutating call on the repository *)

\* TagResource: a tag whose key exists replaces the value in place, a new
\* key is appended; the service stores an absent value as the empty string
RECURSIVE PutTags(_, _)
PutTags(stored, tags) ==
    IF tags = <<>> THEN stored
    ELSE LET t == Head(tags)
             v == IF t.Value = Nil THEN "" ELSE Deref(t.Value)
             next == IF HasKey(stored, t.Key)
                     THEN [i \in 1..Len(stored) |->
                             IF stored[i].Key = t.Key
                             THEN [Key |-> t.Key, Value |-> v]
                             ELSE stored[i]]
                     ELSE Append(stored, [Key |-> t.Key, Value |-> v])
         IN  PutTags(next, Tail(tags))

InSeq(x, s) == \E i \in 1..Len(s) : s[i] = x

\* no repository of the name exists in the registry
NoRepository == [Exists |-> FALSE]

\* CreateRepository: scanning and mutability take the service's defaults
\* where the request carries none; a new repository holds no policy
createRepository(input) ==
    [ImageScanningConfiguration |->
        IF input.ImageScanningConfiguration = Nil
           \/ Deref(input.ImageScanningConfiguration).ScanOnPush = Nil
        THEN [ScanOnPush |-> FALSE]
        ELSE [ScanOnPush |->
                Deref(Deref(input.ImageScanningConfiguration).ScanOnPush)],
     ImageTagMutability |->
        IF input.ImageTagMutability = Nil THEN "MUTABLE"
        ELSE Deref(input.ImageTagMutability),
     LifecyclePolicyText |-> Nil,
     PolicyText |-> Nil,
     Tags |-> PutTags(<<>>, input.Tags)]

Apply(rem, req) ==
    CASE req.op = "CreateRepository" -> createRepository(req.input)
      [] req.op = "DeleteRepository" -> NoRepository
      [] req.op = "PutImageScanningConfiguration" ->
            [rem EXCEPT !.ImageScanningConfiguration =
                            req.input.ImageScanningConfiguration]
      [] req.op = "PutImageTagMutability" ->
            [rem EXCEPT !.ImageTagMutability = req.input.ImageTagMutability]
      [] req.op = "PutLifecyclePolicy" ->
            [rem EXCEPT !.LifecyclePolicyText = req.input.LifecyclePolicyText]
      [] req.op = "DeleteLifecyclePolicy" ->
            [rem EXCEPT !.LifecyclePolicyText = Nil]
      [] req.op = "SetRepositoryPolicy" ->
            [rem EXCEPT !.PolicyText = req.input.PolicyText]
      [] req.op = "DeleteRepositoryPolicy" ->
            [rem EXCEPT !.PolicyText = Nil]
      [] req.op = "UntagResource" ->
            [rem EXCEPT !.Tags =
                SelectSeq(rem.Tags, LAMBDA t : ~InSeq(t.Key, req.input.TagKeys))]
      [] req.op = "TagResource" ->
            [rem EXCEPT !.Tags = PutTags(rem.Tags, req.input.Tags)]

-----------------------------------------------------------------------------
(* Read-Merge: the latest snapshot rebuilt from the service *)

awsAccountID == "111122223333"
NotFound == Ptr("ackerr.NotFound")

\* the repository element DescribeRepositories answers for a repository
describeRepository(rem) ==
    [CreatedAt |-> Ptr("t0"),
     EncryptionConfiguration |->
        Ptr([EncryptionType |-> Ptr("AES256"), KmsKey |-> Nil]),
     ImageScanningConfiguration |->
        Ptr([ScanOnPush |-> Ptr(rem.ImageScanningConfiguration.ScanOnPush)]),
     ImageTagMutability |-> Ptr(rem.ImageTagMutability),
     RegistryId |-> Ptr(awsAccountID),
     RepositoryArn |-> Ptr(RepositoryArn),
     RepositoryName |-> Ptr(RepositoryName),
     RepositoryUri |-> Ptr("uri:repo")]

\* DescribeRepositories answered without error for a registry that holds rem
describeRepositories(rem) ==
    [err |-> Nil, Repositories |-> <<describeRepository(rem)>>]

\* setStatusDefaults: metadata, owner account and condition list are set
\* where they are nil (a nil and an empty condition list are both <<>>)
setStatusDefaults(ko) ==
    LET meta == IF ko.Status.ACKResourceMetadata = Nil
                THEN [ARN |-> Nil, OwnerAccountID |-> Nil]
                ELSE Deref(ko.Status.ACKResourceMetadata)
        owned == IF meta.OwnerAccountID = Nil
                 THEN [meta EXCEPT !.OwnerAccountID = Ptr(awsAccountID)]
                 ELSE meta
    IN  [ko EXCEPT !.Status.ACKResourceMetadata = Ptr(owned)]

\* one turn of sdkFind's loop: elem's fields are written into ko down to the
\* name check; `continue` leaves the loop body with what was written so far
sdkFindElem(ko, elem) ==
    LET k1 == IF elem.CreatedAt # Nil
              THEN [ko EXCEPT !.Status.CreatedAt = elem.CreatedAt] ELSE ko
        k2 == IF elem.EncryptionConfiguration # Nil
              THEN [k1 EXCEPT !.Spec.EncryptionConfiguration =
                        Ptr([EncryptionType |->
                                Deref(elem.EncryptionConfiguration).EncryptionType,
                             KMSKey |->
                                Deref(elem.EncryptionConfiguration).KmsKey])]
              ELSE k1
        k3 == IF elem.ImageScanningConfiguration # Nil
              THEN [k2 EXCEPT !.Spec.ImageScanningConfiguration =
                        Ptr([ScanOnPush |->
                                Deref(elem.ImageScanningConfiguration).ScanOnPush])]
              ELSE k2
        k4 == IF elem.ImageTagMutability # Nil
              THEN [k3 EXCEPT !.Spec.ImageTagMutability = elem.ImageTagMutability]
              ELSE k3
        k5 == IF elem.RegistryId # Nil
              THEN [k4 EXCEPT !.Status.RegistryID = elem.RegistryId] ELSE k4
        k6 == IF elem.RepositoryArn # Nil
              THEN [k5 EXCEPT !.Status.ACKResourceMetadata =
                        Ptr([(IF @ = Nil
                              THEN [ARN |-> Nil, OwnerAccountID |-> Nil]
                              ELSE Deref(@))
                             EXCEPT !.ARN = elem.RepositoryArn])]
              ELSE k5
        k7 == IF elem.RepositoryName # Nil
              THEN [k6 EXCEPT !.Spec.Name = elem.RepositoryName] ELSE k6
        k8 == IF elem.RepositoryUri # Nil
              THEN [k7 EXCEPT !.Status.RepositoryURI = elem.RepositoryUri]
              ELSE k7
    IN  IF /\ elem.RepositoryName # Nil
           /\ k6.Spec.Name # Nil
           /\ Deref(elem.RepositoryName) # Deref(k6.Spec.Name)
        THEN [ko |-> k6, found |-> FALSE]
        ELSE [ko |-> k8, found |-> TRUE]

\* `for _, elem := range resp.Repositories` with its `continue` and `break`
RECURSIVE sdkFindLoop(_, _)
sdkFindLoop(ko, elems) ==
    IF elems = <<>> THEN [ko |-> ko, found |-> FALSE]
    ELSE LET turn == sdkFindElem(ko, Head(elems))
         IN  IF turn.found THEN turn ELSE sdkFindLoop(turn.ko, Tail(elems))

\* variant: every error of the describe call is answered with NotFound
sdkFind_AnyErrorNotFound(r, answer) ==
    IF answer.err # Nil
    THEN [ko |-> Nil, err |-> NotFound]
    ELSE LET loop == sdkFindLoop(r, answer.Repositories)
         IN  IF ~loop.found THEN [ko |-> Nil, err |-> NotFound]
             ELSE [ko |-> Ptr(setStatusDefaults(loop.ko)), err |-> Nil]

\* variant: a failed describe call returns the snapshot built so far
sdkFind_ErrorKeepsSnapshot(r, answer) ==
    IF answer.err # Nil
    THEN IF answer.err = Ptr("RepositoryNotFoundException")
         THEN [ko |-> Nil, err |-> NotFound]
         ELSE [ko |-> Ptr(setStatusDefaults(r)), err |-> answer.err]
    ELSE LET loop == sdkFindLoop(r, answer.Repositories)
         IN  IF ~loop.found THEN [ko |-> Nil, err |-> NotFound]
             ELSE [ko |-> Ptr(setStatusDefaults(loop.ko)), err |-> Nil]

\* sdkFind(r) given the answer of DescribeRepositories: (snapshot, error)
sdkFind(r, answer) ==
    IF answer.err # Nil
    THEN IF answer.err = Ptr("RepositoryNotFoundException")
         THEN [ko |-> Nil, err |-> NotFound]
         ELSE [ko |-> Nil, err |-> answer.err]
    ELSE LET loop == sdkFindLoop(r, answer.Repositories)
         IN  IF ~loop.found THEN [ko |-> Nil, err |-> NotFound]
             ELSE [ko |-> Ptr(setStatusDefaults(loop.ko)), err |-> Nil]

\* the answer of GetLifecyclePolicy for a repository
getLifecyclePolicy(rem) ==
    IF rem.LifecyclePolicyText = Nil
    THEN [err |-> Ptr("LifecyclePolicyNotFoundException"),
          LifecyclePolicyText |-> Nil]
    ELSE [err |-> Nil, LifecyclePolicyText |-> rem.LifecyclePolicyText]

\* variant: a missing lifecycle policy is returned as an error
setResourceAdditionalFields_NotFoundIsError(ko, answer) ==
    IF answer.err # Nil
    THEN [ko |-> ko, err |-> answer.err]
    ELSE IF answer.LifecyclePolicyText # Nil
         THEN [ko |-> [ko EXCEPT !.Spec.LifecyclePolicy =
                                    answer.LifecyclePolicyText],
               err |-> Nil]
         ELSE [ko |-> ko, err |-> Nil]

\* setResourceAdditionalFields(ko) given the answer of GetLifecyclePolicy:
\* ko as the function leaves it, and the error it returns
setResourceAdditionalFields(ko, answer) ==
    IF answer.err # Nil
    THEN IF answer.err = Ptr("LifecyclePolicyNotFoundException")
         THEN [ko |-> [ko EXCEPT !.Spec.LifecyclePolicy = Nil], err |-> Nil]
         ELSE [ko |-> ko, err |-> answer.err]
    ELSE IF answer.LifecyclePolicyText # Nil
         THEN [ko |-> [ko EXCEPT !.Spec.LifecyclePolicy =
                                    answer.LifecyclePolicyText],
               err |-> Nil]
         ELSE [ko |-> ko, err |-> Nil]

\* reading the access policy: not found means absent
getRepositoryPolicy(ko, rem) ==
    [ko EXCEPT !.Spec.Policy = rem.PolicyText]

\* reading the tags: the service's list, as resource tags
getRepositoryTags(ko, rem) ==
    [ko EXCEPT !.Spec.Tags =
        [i \in 1..Len(rem.Tags) |->
            [Key |-> rem.Tags[i].Key, Value |-> Ptr(rem.Tags[i].Value)]]]

\* the read of a pass, every read call answering without failure
ReadOne(r, rem) ==
    LET found == Deref(sdkFind(r, describeRepositories(rem)).ko)
        ko == setResourceAdditionalFields(found, getLifecyclePolicy(rem)).ko
    IN  getRepositoryTags(getRepositoryPolicy(ko, rem), rem)

-----------------------------------------------------------------------------
(* Convergence Sequencer: the requests of the attribute steps *)

defaultImageScanningConfig == [ScanOnPush |-> FALSE]
defaultImageTagMutability == "MUTABLE"

\* the package-level variables as the package initialises them
PackageVars ==
    [defaultImageScanningConfig |-> defaultImageScanningConfig,
     defaultImageTagMutability |-> defaultImageTagMutability]

\* no other pass runs
NoPeer == [pc |-> "absent"]

\* updateImageScanningConfiguration dereferences ScanOnPush of a
\* configuration that is present: a nil ScanOnPush panics
scanOnPushNilDeref(dspec) ==
    /\ dspec.ImageScanningConfiguration # Nil
    /\ Deref(dspec.ImageScanningConfiguration).ScanOnPush = Nil

updateImageScanningConfigurationCall(dspec) ==
    [op |-> "PutImageScanningConfiguration",
     input |->
        [RepositoryName |-> Deref(dspec.Name),
         ImageScanningConfiguration |->
            IF dspec.ImageScanningConfiguration = Nil
            THEN pkg.defaultImageScanningConfig
            ELSE [ScanOnPush |->
                    Deref(Deref(dspec.ImageScanningConfiguration).ScanOnPush)]]]

updateImageTagMutabilityCall(dspec) ==
    [op |-> "PutImageTagMutability",
     input |->
        [RepositoryName |-> Deref(dspec.Name),
         ImageTagMutability |->
            IF dspec.ImageTagMutability = Nil
            THEN pkg.defaultImageTagMutability
            ELSE Deref(dspec.ImageTagMutability)]]

deleteLifecyclePolicyCall(dspec) ==
    [op |-> "DeleteLifecyclePolicy",
     input |-> [RepositoryName |-> dspec.Name, RegistryId |-> dspec.RegistryID]]

\* variant: the text is taken from the access policy
updateLifecyclePolicyCall_PolicyText(dspec) ==
    IF dspec.LifecyclePolicy = Nil \/ Deref(dspec.LifecyclePolicy) = ""
    THEN deleteLifecyclePolicyCall(dspec)
    ELSE [op |-> "PutLifecyclePolicy",
          input |-> [RepositoryName |-> dspec.Name,
                     RegistryId |-> dspec.RegistryID,
                     LifecyclePolicyText |-> dspec.Policy]]

updateLifecyclePolicyCall(dspec) ==
    IF dspec.LifecyclePolicy = Nil \/ Deref(dspec.LifecyclePolicy) = ""
    THEN deleteLifecyclePolicyCall(dspec)
    ELSE [op |-> "PutLifecyclePolicy",
          input |-> [RepositoryName |-> dspec.Name,
                     RegistryId |-> dspec.RegistryID,
                     LifecyclePolicyText |-> dspec.LifecyclePolicy]]

deleteRepositoryPolicyCall(dspec) ==
    [op |-> "DeleteRepositoryPolicy",
     input |-> [RepositoryName |-> dspec.Name, RegistryId |-> dspec.RegistryID]]

\* variant: only a nil policy is deleted, an empty text is set
updateRepositoryPolicyCall_NilOnly(dspec) ==
    IF dspec.Policy = Nil
    THEN deleteRepositoryPolicyCall(dspec)
    ELSE [op |-> "SetRepositoryPolicy",
          input |-> [RepositoryName |-> dspec.Name,
                     RegistryId |-> dspec.RegistryID,
                     PolicyText |-> dspec.Policy]]

updateRepositoryPolicyCall(dspec) ==
    IF dspec.Policy = Nil \/ Deref(dspec.Policy) = ""
    THEN deleteRepositoryPolicyCall(dspec)
    ELSE [op |-> "SetRepositoryPolicy",
          input |-> [RepositoryName |-> dspec.Name,
                     RegistryId |-> dspec.RegistryID,
                     PolicyText |-> dspec.Policy]]

\* syncRepositoryTags: removed keys, and added with updated appended
syncRemoved(l, des) == computeTagsDelta(l.Spec.Tags, des.Spec.Tags).removed

\* variant: the updated tags are not appended
syncAdded_WithoutUpdated(l, des) ==
    computeTagsDelta(l.Spec.Tags, des.Spec.Tags).added

syncAdded(l, des) ==
    LET d == computeTagsDelta(l.Spec.Tags, des.Spec.Tags)
    IN  d.added \o d.updated

untagResourceCall(l, des) ==
    [op |-> "UntagResource",
     input |-> [ResourceArn |-> Deref(l.Status.ACKResourceMetadata).ARN,
                TagKeys |-> syncRemoved(l, des)]]

tagResourceCall(l, des) ==
    [op |-> "TagResource",
     input |-> [ResourceArn |-> Deref(l.Status.ACKResourceMetadata).ARN,
                Tags |-> sdkTagsFromResourceTags(syncAdded(l, des))]]

-----------------------------------------------------------------------------
(* Convergence Sequencer: customUpdateRepository *)

\* the remote calls of a pass, in the order customUpdateRepository and
\* syncRepositoryTags reach them
\* variant: the access policy step stands before the lifecycle policy step
PcOrder_PolicyFirst ==
    <<"scan", "mutability", "policy", "lifecycle", "untag", "tag">>

\* variant: the add-tags call stands before the remove-tags call
PcOrder_TagFirst ==
    <<"scan", "mutability", "lifecycle", "policy", "tag", "untag">>

PcOrder == <<"scan", "mutability", "lifecycle", "policy", "untag", "tag">>

\* variant: a lifecycle policy step without desired text is a no-op
StepEnabled_SkipAbsentLifecycle(p, d, l, des) ==
    CASE p = "scan"       -> DifferentAt(d, "Spec.ImageScanningConfiguration")
      [] p = "mutability" -> DifferentAt(d, "Spec.ImageTagMutability")
      [] p = "lifecycle"  -> /\ DifferentAt(d, "Spec.LifecyclePolicy")
                             /\ des.Spec.LifecyclePolicy # Nil
      [] p = "policy"     -> DifferentAt(d, "Spec.Policy")
      [] p = "untag"      -> /\ DifferentAt(d, "Spec.Tags")
                             /\ Len(syncRemoved(l, des)) > 0
      [] p = "tag"        -> /\ DifferentAt(d, "Spec.Tags")
                             /\ Len(syncAdded(l, des)) > 0

\* variant: the mutability step does not look at the change set
StepEnabled_MutabilityUnguarded(p, d, l, des) ==
    CASE p = "scan"       -> DifferentAt(d, "Spec.ImageScanningConfiguration")
      [] p = "mutability" -> TRUE
      [] p = "lifecycle"  -> DifferentAt(d, "Spec.LifecyclePolicy")
      [] p = "policy"     -> DifferentAt(d, "Spec.Policy")
      [] p = "untag"      -> /\ DifferentAt(d, "Spec.Tags")
                             /\ Len(syncRemoved(l, des)) > 0
      [] p = "tag"        -> /\ DifferentAt(d, "Spec.Tags")
                             /\ Len(syncAdded(l, des)) > 0

\* the condition under which the pass issues the call at position p
StepEnabled(p, d, l, des) ==
    CASE p = "scan"       -> DifferentAt(d, "Spec.ImageScanningConfiguration")
      [] p = "mutability" -> DifferentAt(d, "Spec.ImageTagMutability")
      [] p = "lifecycle"  -> DifferentAt(d, "Spec.LifecyclePolicy")
      [] p = "policy"     -> DifferentAt(d, "Spec.Policy")
      [] p = "untag"      -> /\ DifferentAt(d, "Spec.Tags")
                             /\ Len(syncRemoved(l, des)) > 0
      [] p = "tag"        -> /\ DifferentAt(d, "Spec.Tags")
                             /\ Len(syncAdded(l, des)) > 0

PcIndex(p) ==
    IF \E i \in 1..Len(PcOrder) : PcOrder[i] = p
    THEN CHOOSE i \in 1..Len(PcOrder) : PcOrder[i] = p
    ELSE 0

\* the next call the pass reaches after position cur ("entry": from the top),
\* or "done" when it reaches `return updated, nil`
NextPc(cur, d, l, des) ==
    LET rest == {j \in (PcIndex(cur) + 1)..Len(PcOrder) :
                    StepEnabled(PcOrder[j], d, l, des)}
    IN  IF rest = {} THEN "done"
        ELSE PcOrder[CHOOSE j \in rest : \A k \in rest : j <= k]

NoResult == [ko |-> Nil, err |-> Nil]

\* variant: the error of a call is dropped and the pass goes on
AfterCall_IgnoreError(cur, err, d, l, des, upd) ==
    LET n == NextPc(cur, d, l, des)
    IN  [pc |-> n, updated |-> upd,
         result |-> IF n = "done" THEN [ko |-> upd, err |-> Nil]
                    ELSE NoResult]

\* variant: a step that succeeded hands on the latest snapshot
AfterCall_ReturnLatest(cur, err, d, l, des, upd) ==
    IF err # Nil
    THEN [pc |-> "done", updated |-> Nil, result |-> [ko |-> Nil, err |-> err]]
    ELSE LET n == NextPc(cur, d, l, des)
         IN  [pc |-> n, updated |-> Ptr(l),
              result |-> IF n = "done" THEN [ko |-> Ptr(l), err |-> Nil]
                         ELSE NoResult]

\* what the pass does once the call at cur has answered with err:
\* `if err != nil { return nil, err }`, else on to the next step
AfterCall(cur, err, d, l, des, upd) ==
    IF err # Nil
    THEN [pc |-> "done", updated |-> Nil, result |-> [ko |-> Nil, err |-> err]]
    ELSE LET n == NextPc(cur, d, l, des)
         IN  [pc |-> n, updated |-> upd,
              result |-> IF n = "done" THEN [ko |-> upd, err |-> Nil]
                         ELSE NoResult]

Canceled == Ptr("context.Canceled")

\* variant: the client sends the request whatever the context is
WithContext_Ignored(c, err) == [sent |-> TRUE, err |-> err]

\* rm.sdkapi.X(ctx, input): with a cancelled context the client returns the
\* context's error without sending the request; otherwise the request is
\* sent and the service answers err
WithContext(c, err) ==
    IF c = "cancelled" THEN [sent |-> FALSE, err |-> Canceled]
    ELSE [sent |-> TRUE, err |-> err]

\* variant: a step leaves the configuration it sent in the package default
pkgAfterCall_KeepsInput(p, req) ==
    IF req.op = "PutImageScanningConfiguration"
    THEN [p EXCEPT !.defaultImageScanningConfig =
                        req.input.ImageScanningConfiguration]
    ELSE p

\* the package-level variables after a step: they are read, never assigned
pkgAfterCall(p, req) == p

\* one remote mutating call: it is issued, answers, and the pass goes on
Issue(cur, req) ==
    \E err \in Outcomes :
    \E out \in {WithContext(ctx, err)} :
        LET after == AfterCall(cur, out.err, delta, Deref(latest), desired,
                               updated)
        IN  /\ calls' = IF out.sent
                        THEN Append(calls, [op |-> req.op, input |-> req.input,
                                            err |-> out.err])
                        ELSE calls
            /\ remote' = IF out.sent /\ out.err = Nil THEN Apply(remote, req)
                         ELSE remote
            /\ pc' = after.pc
            /\ updated' = after.updated
            /\ result' = after.result
            /\ pkg' = pkgAfterCall(pkg, req)
            /\ UNCHANGED <<desired, latest, delta, prevOK, resp, ctx, peer>>

updateImageScanningConfiguration ==
    /\ pc = "scan"
    /\ IF scanOnPushNilDeref(Deref(updated).Spec)
       THEN /\ pc' = "panic"
            /\ UNCHANGED <<desired, remote, latest, delta, updated, calls,
                           result, prevOK, resp,
                           ctx, pkg, peer>>
       ELSE Issue("scan", updateImageScanningConfigurationCall(Deref(updated).Spec))

updateImageTagMutability ==
    /\ pc = "mutability"
    /\ Issue("mutability", updateImageTagMutabilityCall(Deref(updated).Spec))

updateLifecyclePolicy ==
    /\ pc = "lifecycle"
    /\ Issue("lifecycle", updateLifecyclePolicyCall(Deref(updated).Spec))

updateRepositoryPolicy ==
    /\ pc = "policy"
    /\ Issue("policy", updateRepositoryPolicyCall(Deref(updated).Spec))

syncRepositoryTagsUntag ==
    /\ pc = "untag"
    /\ Issue("untag", untagResourceCall(Deref(latest), desired))

syncRepositoryTagsTag ==
    /\ pc = "tag"
    /\ Issue("tag", tagResourceCall(Deref(latest), desired))

-----------------------------------------------------------------------------
(* The reconcile pass around the update *)

NoSnapshot == Nil
NoAnswer == Nil

\* a pass starts: the latest snapshot is read, the change set is computed,
\* and sdkUpdate enters customUpdateRepository up to its first remote call
Reconcile ==
    /\ pc = "idle"
    /\ \E l \in {ReadOne(desired, remote)} :
       \E d \in {newResourceDelta(desired, l)} :
       \E n \in {NextPc("entry", d, l, desired)} :
           /\ latest' = Ptr(l)
           /\ delta' = d
           /\ updated' = Ptr(desired)
           /\ calls' = <<>>
           /\ pc' = n
           /\ result' = IF n = "done" THEN [ko |-> Ptr(desired), err |-> Nil]
                        ELSE NoResult
    /\ UNCHANGED <<desired, remote, prevOK, resp,
                           ctx, pkg, peer>>

\* the scheduler runs the next pass; nothing of the pass is kept
Requeue ==
    /\ pc \in {"done", "panic"}
    /\ pc' = "idle"
    /\ prevOK' = (pc = "done" /\ result.err = Nil)
    /\ latest' = NoSnapshot
    /\ delta' = {}
    /\ updated' = Nil
    /\ calls' = <<>>
    /\ result' = NoResult
    /\ ctx' = "live"
    /\ UNCHANGED <<desired, remote, resp, pkg, peer>>

-----------------------------------------------------------------------------
(* Specifications *)

\* the annotations of a resource: a map from keys to texts
NoAnnotations == [k \in {} |-> ""]

Snapshot(isc, itm, lp, pol, tags) ==
    [ObjectMeta |-> [Annotations |-> NoAnnotations],
     Spec |-> [Name |-> Ptr(RepositoryName),
               RegistryID |-> Nil,
               EncryptionConfiguration |-> Nil,
               ImageScanningConfiguration |-> isc,
               ImageTagMutability |-> itm,
               LifecyclePolicy |-> lp,
               Policy |-> pol,
               Tags |-> tags],
     Status |-> [ACKResourceMetadata |->
                    Ptr([ARN |-> Ptr(RepositoryArn),
                         OwnerAccountID |-> Ptr(awsAccountID)]),
                 Conditions |-> <<>>,
                 CreatedAt |-> Nil,
                 RegistryID |-> Nil,
                 RepositoryURI |-> Nil]]

Repository(isc, itm, lp, pol, tags) ==
    [ImageScanningConfiguration |-> isc,
     ImageTagMutability |-> itm,
     LifecyclePolicyText |-> lp,
     PolicyText |-> pol,
     Tags |-> tags]

DesiredScanning ==
    {Nil, Ptr([ScanOnPush |-> Nil]),
     Ptr([ScanOnPush |-> Ptr(TRUE)]), Ptr([ScanOnPush |-> Ptr(FALSE)])}
DesiredMutability == {Nil, Ptr("MUTABLE"), Ptr("IMMUTABLE")}
DesiredLifecyclePolicy == {Nil, Ptr(""), Ptr("L")}
DesiredPolicy == {Nil, Ptr(""), Ptr("P")}

PassStart ==
    /\ latest = NoSnapshot
    /\ delta = {}
    /\ updated = Nil
    /\ pc = "idle"
    /\ calls = <<>>
    /\ result = NoResult
    /\ prevOK = FALSE
    /\ resp = NoAnswer
    /\ ctx = "live"
    /\ pkg = PackageVars
    /\ peer = NoPeer

\* the reconcile loop over every desired snapshot and repository state
Init ==
    /\ desired \in
        {Snapshot(isc, itm, lp, pol, tags) :
            isc \in DesiredScanning, itm \in DesiredMutability,
            lp \in DesiredLifecyclePolicy, pol \in DesiredPolicy,
            tags \in TagLists(PassTagKeys, {Ptr("1"), Ptr("2")}, MaxPassTags)}
    /\ remote \in
        {Repository(isc, itm, lp, pol, tags) :
            isc \in [ScanOnPush : BOOLEAN], itm \in {"MUTABLE", "IMMUTABLE"},
            lp \in {Nil, Ptr("L0")}, pol \in {Nil, Ptr("P0")},
            tags \in TagLists(PassTagKeys, {"1"}, MaxPassTags)}
    /\ PassStart

Next ==
    \/ Reconcile
    \/ updateImageScanningConfiguration
    \/ updateImageTagMutability
    \/ updateLifecyclePolicy
    \/ updateRepositoryPolicy
    \/ syncRepositoryTagsUntag
    \/ syncRepositoryTagsTag
    \/ Requeue

Spec == Init /\ [][Next]_vars

\* tag synchronization alone: only the tags of the snapshot and of the
\* repository vary, over longer lists and absent or empty values
InitTags ==
    /\ desired \in
        {Snapshot(Ptr([ScanOnPush |-> Ptr(FALSE)]), Ptr("MUTABLE"), Nil, Nil, tags) :
            tags \in TagLists(TagKeys, {Nil, Ptr("1"), Ptr("2")}, MaxTags)}
    /\ remote \in
        {Repository([ScanOnPush |-> FALSE], "MUTABLE", Nil, Nil, tags) :
            tags \in TagLists(TagKeys, {"", "1", "2"}, MaxTags)}
    /\ PassStart

NextTags ==
    \/ Reconcile
    \/ syncRepositoryTagsUntag
    \/ syncRepositoryTagsTag
    \/ Requeue

SpecTags == InitTags /\ [][NextTags]_vars

\* the positions of a pass between two steps: before a remote call
StepPcs == {"scan", "mutability", "lifecycle", "policy", "untag", "tag"}

\* the context of the running pass is cancelled between two steps
Cancel ==
    /\ ctx = "live"
    /\ pc \in StepPcs
    /\ ctx' = "cancelled"
    /\ UNCHANGED <<desired, remote, latest, delta, updated, pc, calls, result,
                   prevOK, resp, pkg, peer>>

\* the reconcile loop with passes that can be cancelled
InitCancel == Init

NextCancel ==
    \/ Next
    \/ Cancel

SpecCancel == InitCancel /\ [][NextCancel]_vars

\* a second resource, reconciled by the same process: its pass runs the same
\* steps on its own snapshots and its own repository
PeerName == "peer"

PeerSnapshot(isc, itm) ==
    [Snapshot(isc, itm, Nil, Nil, <<>>) EXCEPT !.Spec.Name = Ptr(PeerName)]

\* the read of the peer's pass: the service answers under the peer's name
PeerReadOne(r, rem) ==
    [ReadOne([r EXCEPT !.Spec.Name = Ptr(RepositoryName)], rem)
        EXCEPT !.Spec.Name = r.Spec.Name]

PeerReconcile ==
    /\ peer.pc = "idle"
    /\ \E l \in {PeerReadOne(peer.desired, peer.remote)} :
       \E d \in {newResourceDelta(peer.desired, l)} :
       \E n \in {NextPc("entry", d, l, peer.desired)} :
           peer' = [peer EXCEPT
                        !.latest = Ptr(l),
                        !.delta = d,
                        !.updated = Ptr(peer.desired),
                        !.pc = n,
                        !.result = IF n = "done"
                                   THEN [ko |-> Ptr(peer.desired), err |-> Nil]
                                   ELSE NoResult]
    /\ UNCHANGED <<desired, remote, latest, delta, updated, pc, calls, result,
                   prevOK, resp, ctx, pkg>>

\* one remote mutating call of the peer's pass, under its own live context
PeerIssue(cur, req) ==
    \E err \in Outcomes :
    \E out \in {WithContext("live", err)} :
    \E after \in {AfterCall(cur, out.err, peer.delta, Deref(peer.latest),
                            peer.desired, peer.updated)} :
        /\ peer' = [peer EXCEPT
                        !.calls = Append(@, [op |-> req.op, input |-> req.input,
                                             err |-> out.err]),
                        !.remote = IF out.err = Nil THEN Apply(@, req) ELSE @,
                        !.pc = after.pc,
                        !.updated = after.updated,
                        !.result = after.result]
        /\ pkg' = pkgAfterCall(pkg, req)
        /\ UNCHANGED <<desired, remote, latest, delta, updated, pc, calls,
                       result, prevOK, resp, ctx>>

PeerUpdateImageScanningConfiguration ==
    /\ peer.pc = "scan"
    /\ IF scanOnPushNilDeref(Deref(peer.updated).Spec)
       THEN /\ peer' = [peer EXCEPT !.pc = "panic"]
            /\ UNCHANGED <<desired, remote, latest, delta, updated, pc, calls,
                           result, prevOK, resp, ctx, pkg>>
       ELSE PeerIssue("scan",
                updateImageScanningConfigurationCall(Deref(peer.updated).Spec))

PeerUpdateImageTagMutability ==
    /\ peer.pc = "mutability"
    /\ PeerIssue("mutability",
            updateImageTagMutabilityCall(Deref(peer.updated).Spec))

SharedRepositories ==
    {Repository(isc, itm, Nil, Nil, <<>>) :
        isc \in [ScanOnPush : BOOLEAN], itm \in {"MUTABLE", "IMMUTABLE"}}

\* two resources whose scanning configuration and mutability are to be
\* converged, each by its own pass, the two passes interleaved
InitShared ==
    /\ desired \in
        {Snapshot(isc, itm, Nil, Nil, <<>>) :
            isc \in DesiredScanning, itm \in DesiredMutability}
    /\ remote \in SharedRepositories
    /\ latest = NoSnapshot
    /\ delta = {}
    /\ updated = Nil
    /\ pc = "idle"
    /\ calls = <<>>
    /\ result = NoResult
    /\ prevOK = FALSE
    /\ resp = NoAnswer
    /\ ctx = "live"
    /\ pkg = PackageVars
    /\ peer \in
        {[desired |-> PeerSnapshot(isc, itm), remote |-> rem,
          latest |-> NoSnapshot, delta |-> {}, updated |-> Nil, pc |-> "idle",
          calls |-> <<>>, result |-> NoResult] :
            isc \in DesiredScanning, itm \in DesiredMutability,
            rem \in SharedRepositories}

NextShared ==
    \/ Reconcile
    \/ updateImageScanningConfiguration
    \/ updateImageTagMutability
    \/ PeerReconcile
    \/ PeerUpdateImageScanningConfiguration
    \/ PeerUpdateImageTagMutability

SpecShared == InitShared /\ [][NextShared]_vars

\* the reconcile loop under retry: a repository that differs from the
\* desired snapshot in every attribute
InitFair ==
    /\ desired \in
        {Snapshot(isc, itm, lp, pol, tags) :
            isc \in DesiredScanning, itm \in DesiredMutability,
            lp \in {Nil, Ptr("L")}, pol \in {Nil, Ptr("P")},
            tags \in {<<>>, <<[Key |-> "a", Value |-> Ptr("1")]>>}}
    /\ remote = Repository([ScanOnPush |-> TRUE], "IMMUTABLE", Ptr("L0"),
                           Ptr("P0"), <<[Key |-> "b", Value |-> "1"]>>)
    /\ PassStart

\* the step A issues its call and the call succeeds
StepOK(A) ==
    /\ A
    /\ Len(calls') = Len(calls) + 1
    /\ calls'[Len(calls')].err = Nil

\* passes are repeated, every step that is reached runs, and a call that is
\* issued again and again eventually succeeds
Retry ==
    /\ WF_vars(Next)
    /\ SF_vars(StepOK(updateImageScanningConfiguration))
    /\ SF_vars(StepOK(updateImageTagMutability))
    /\ SF_vars(StepOK(updateLifecyclePolicy))
    /\ SF_vars(StepOK(updateRepositoryPolicy))
    /\ SF_vars(StepOK(syncRepositoryTagsUntag))
    /\ SF_vars(StepOK(syncRepositoryTagsTag))

SpecFair == InitFair /\ [][Next]_vars /\ Retry

-----------------------------------------------------------------------------
(* Creation: sdkCreate and its sdk_create_post_set_output hook *)

\* newCreateRequestPayload: the fields of Spec that are set; neither the
\* policy nor the lifecycle policy is a field of the request
newCreateRequestPayload(r) ==
    [op |-> "CreateRepository",
     input |->
        [EncryptionConfiguration |-> r.Spec.EncryptionConfiguration,
         ImageScanningConfiguration |-> r.Spec.ImageScanningConfiguration,
         ImageTagMutability |-> r.Spec.ImageTagMutability,
         RepositoryName |-> r.Spec.Name,
         Tags |-> sdkTagsFromResourceTags(r.Spec.Tags)]]

\* sdkCreate's merge of resp.Repository into the copy of r
sdkCreateMerge(r, repo) ==
    LET k1 == IF repo.CreatedAt # Nil
              THEN [r EXCEPT !.Status.CreatedAt = repo.CreatedAt] ELSE r
        k2 == IF repo.RegistryId # Nil
              THEN [k1 EXCEPT !.Status.RegistryID = repo.RegistryId] ELSE k1
        k3 == IF k2.Status.ACKResourceMetadata = Nil
              THEN [k2 EXCEPT !.Status.ACKResourceMetadata =
                        Ptr([ARN |-> Nil, OwnerAccountID |-> Nil])]
              ELSE k2
        k4 == IF repo.RepositoryArn # Nil
              THEN [k3 EXCEPT !.Status.ACKResourceMetadata =
                        Ptr([Deref(@) EXCEPT !.ARN = repo.RepositoryArn])]
              ELSE k3
        k5 == IF repo.RepositoryUri # Nil
              THEN [k4 EXCEPT !.Status.RepositoryURI = repo.RepositoryUri]
              ELSE k4
    IN  setStatusDefaults(k5)

\* variant: the lifecycle policy block stands before the policy block
CreateHookOrder_LifecycleFirst == <<"createLifecycle", "createPolicy">>

\* the calls of the hook, in the order the template reaches them
CreateHookOrder == <<"createPolicy", "createLifecycle">>

CreateHookIndex(p) ==
    CHOOSE i \in 1..Len(CreateHookOrder) : CreateHookOrder[i] = p

\* variant: both blocks of the hook run whatever the texts are
CreateHookEnabled_Always(p, ko) == TRUE

\* `if ko.Spec.Policy != nil && *ko.Spec.Policy != ""`, and the same for
\* the lifecycle policy
CreateHookEnabled(p, ko) ==
    CASE p = "createPolicy" -> ko.Spec.Policy \notin {Nil, Ptr("")}
      [] p = "createLifecycle" -> ko.Spec.LifecyclePolicy \notin {Nil, Ptr("")}

\* the next call of the hook after its i-th, or "created" at its end
NextCreatePc(i, ko) ==
    LET rest == {j \in (i + 1)..Len(CreateHookOrder) :
                    CreateHookEnabled(CreateHookOrder[j], ko)}
    IN  IF rest = {} THEN "created"
        ELSE CreateHookOrder[CHOOSE j \in rest : \A k \in rest : j <= k]

\* sdkCreate up to the first call of its hook
sdkCreateStep ==
    /\ pc = "create"
    /\ \E err \in Outcomes :
        LET req == newCreateRequestPayload(desired)
            rem == Apply(remote, req)
            ko == sdkCreateMerge(desired, describeRepository(rem))
            n == NextCreatePc(0, ko)
        IN  /\ calls' = <<[op |-> req.op, input |-> req.input, err |-> err]>>
            /\ IF err # Nil
               THEN /\ remote' = remote
                    /\ updated' = Nil
                    /\ pc' = "created"
                    /\ result' = [ko |-> Nil, err |-> err]
               ELSE /\ remote' = rem
                    /\ updated' = Ptr(ko)
                    /\ pc' = n
                    /\ result' = IF n = "created"
                                 THEN [ko |-> Ptr(ko), err |-> Nil]
                                 ELSE NoResult
    /\ UNCHANGED <<desired, latest, delta, prevOK, resp,
                           ctx, pkg, peer>>

\* a call of the hook: `if _, err := ...; err != nil { return nil, err }`
CreateHookCall(i, req) ==
    \E err \in Outcomes :
        LET n == NextCreatePc(i, Deref(updated))
        IN  /\ calls' = Append(calls, [op |-> req.op, input |-> req.input,
                                       err |-> err])
            /\ remote' = IF err = Nil THEN Apply(remote, req) ELSE remote
            /\ IF err # Nil
               THEN /\ pc' = "created"
                    /\ result' = [ko |-> Nil, err |-> err]
               ELSE /\ pc' = n
                    /\ result' = IF n = "created"
                                 THEN [ko |-> updated, err |-> Nil]
                                 ELSE NoResult
            /\ UNCHANGED <<desired, latest, delta, updated, prevOK, resp,
                           ctx, pkg, peer>>

createRepositoryPolicy ==
    /\ pc = "createPolicy"
    /\ CreateHookCall(CreateHookIndex("createPolicy"),
                      updateRepositoryPolicyCall(desired.Spec))

createLifecyclePolicy ==
    /\ pc = "createLifecycle"
    /\ CreateHookCall(CreateHookIndex("createLifecycle"),
                      updateLifecyclePolicyCall(desired.Spec))

\* the scheduler runs the next pass after sdkCreate returned: it creates
\* again if the repository does not exist, and updates otherwise
RequeueCreated ==
    /\ pc = "created"
    /\ pc' = IF remote = NoRepository THEN "create" ELSE "idle"
    /\ prevOK' = (result.err = Nil)
    /\ latest' = NoSnapshot
    /\ delta' = {}
    /\ updated' = Nil
    /\ calls' = <<>>
    /\ result' = NoResult
    /\ UNCHANGED <<desired, remote, resp,
                           ctx, pkg, peer>>

\* a resource that does not exist yet is created, then reconciled
InitCreate ==
    /\ desired \in
        {Snapshot(isc, itm, lp, pol, tags) :
            isc \in {Nil, Ptr([ScanOnPush |-> Ptr(TRUE)])},
            itm \in {Nil, Ptr("IMMUTABLE")},
            lp \in DesiredLifecyclePolicy, pol \in DesiredPolicy,
            tags \in TagLists(PassTagKeys, {Ptr("1")}, MaxPassTags)}
    /\ remote = NoRepository
    /\ latest = NoSnapshot
    /\ delta = {}
    /\ updated = Nil
    /\ pc = "create"
    /\ calls = <<>>
    /\ result = NoResult
    /\ prevOK = FALSE
    /\ resp = NoAnswer
    /\ ctx = "live"
    /\ pkg = PackageVars
    /\ peer = NoPeer

NextCreate ==
    \/ sdkCreateStep
    \/ createRepositoryPolicy
    \/ createLifecyclePolicy
    \/ RequeueCreated
    \/ Reconcile
    \/ updateImageScanningConfiguration
    \/ updateImageTagMutability
    \/ updateLifecyclePolicy
    \/ updateRepositoryPolicy
    \/ Requeue

SpecCreate == InitCreate /\ [][NextCreate]_vars

-----------------------------------------------------------------------------
(* Deletion: the force flag read from the annotations *)

AnnotationDeleteForce == "ecr.services.k8s.aws/force-delete"
DefaultDeleteForce == FALSE

\* the texts strconv.ParseBool accepts
ParseBoolTrue == {"1", "t", "T", "TRUE", "true", "True"}
ParseBoolFalse == {"0", "f", "F", "FALSE", "false", "False"}

\* strconv.ParseBool: (value, error)
ParseBool(str) ==
    CASE str \in ParseBoolTrue -> [val |-> TRUE, err |-> Nil]
      [] str \in ParseBoolFalse -> [val |-> FALSE, err |-> Nil]
      [] OTHER -> [val |-> FALSE, err |-> Ptr("strconv.ErrSyntax")]

\* variant: a text that does not parse forces the deletion
GetDeleteForce_UnparsedForces(m) ==
    IF AnnotationDeleteForce \notin DOMAIN m.Annotations
    THEN DefaultDeleteForce
    ELSE ParseBool(m.Annotations[AnnotationDeleteForce]).err # Nil
            \/ ParseBool(m.Annotations[AnnotationDeleteForce]).val

\* GetDeleteForce(&r.ko.ObjectMeta)
GetDeleteForce(m) ==
    IF AnnotationDeleteForce \notin DOMAIN m.Annotations
    THEN DefaultDeleteForce
    ELSE LET parsed == ParseBool(m.Annotations[AnnotationDeleteForce])
         IN  IF parsed.err # Nil THEN DefaultDeleteForce ELSE parsed.val

\* newDeleteRequestPayload, and the hook that sets Force on the request
newDeleteRequestPayload(r) ==
    [op |-> "DeleteRepository",
     input |-> [RegistryId |-> r.Status.RegistryID,
                RepositoryName |-> r.Spec.Name,
                Force |-> GetDeleteForce(r.ObjectMeta)]]

\* sdkDelete: the request is built and issued, the error is returned
sdkDelete ==
    /\ pc = "delete"
    /\ \E err \in Outcomes :
        LET req == newDeleteRequestPayload(desired)
        IN  /\ calls' = <<[op |-> req.op, input |-> req.input, err |-> err]>>
            /\ remote' = IF err = Nil THEN Apply(remote, req) ELSE remote
            /\ result' = [ko |-> Nil, err |-> err]
    /\ pc' = "deleted"
    /\ UNCHANGED <<desired, latest, delta, updated, prevOK, resp,
                           ctx, pkg, peer>>

\* the scheduler deletes again after a failed deletion
RequeueDeleted ==
    /\ pc = "deleted"
    /\ result.err # Nil
    /\ pc' = "delete"
    /\ prevOK' = FALSE
    /\ calls' = <<>>
    /\ result' = NoResult
    /\ UNCHANGED <<desired, remote, latest, delta, updated, resp,
                           ctx, pkg, peer>>

\* texts of the force annotation: those ParseBool accepts, and others
ForceTexts ==
    ParseBoolTrue \cup ParseBoolFalse
        \cup {"not-a-bool", "", "yes", "no", "TrUe", "2", " true"}

AnnotationMaps ==
    LET other == "example.com/owner"
        forced == {NoAnnotations}
                    \cup {[k \in {AnnotationDeleteForce} |-> t] : t \in ForceTexts}
    IN  forced \cup
        {[k \in DOMAIN f \cup {other} |->
            IF k = other THEN "team" ELSE f[k]] : f \in forced}

InitDelete ==
    /\ desired \in
        {[Snapshot(Nil, Nil, Nil, Nil, <<>>)
            EXCEPT !.ObjectMeta.Annotations = a] : a \in AnnotationMaps}
    /\ remote = Repository([ScanOnPush |-> FALSE], "MUTABLE", Nil, Nil, <<>>)
    /\ latest = NoSnapshot
    /\ delta = {}
    /\ updated = Nil
    /\ pc = "delete"
    /\ calls = <<>>
    /\ result = NoResult
    /\ prevOK = FALSE
    /\ resp = NoAnswer
    /\ ctx = "live"
    /\ pkg = PackageVars
    /\ peer = NoPeer

NextDelete ==
    \/ sdkDelete
    \/ RequeueDeleted

SpecDelete == InitDelete /\ [][NextDelete]_vars

-----------------------------------------------------------------------------
(* Conditions: updateConditions and terminalAWSError *)

\* longest condition list of a snapshot
MaxConditions == 2

ConditionTypeTerminal == "ACK.Terminal"
ConditionTypeResourceSynced == "ACK.ResourceSynced"

\* variant: InvalidParameterException is declared terminal
terminalAWSError_InvalidParameter(err) ==
    err = Ptr("InvalidParameterException")

\* terminalAWSError: no terminal_errors are declared for this resource
terminalAWSError(err) == FALSE

\* the first Terminal condition of a list, 0 if it holds none
\* (`for _, condition := range ... { if ... { ...; break } }`)
TerminalIndex(conds) ==
    LET hits == {i \in 1..Len(conds) : conds[i].Type = ConditionTypeTerminal}
    IN  IF hits = {} THEN 0 ELSE CHOOSE i \in hits : \A j \in hits : i <= j

\* variant: a Terminal condition that is present is left as it is
updateConditions_KeepTerminal(r, err) ==
    LET ko == setStatusDefaults(r)
        k == TerminalIndex(ko.Status.Conditions)
    IN  IF k # 0 THEN [ko |-> Ptr(ko), updated |-> TRUE]
        ELSE [ko |-> Nil, updated |-> FALSE]

\* variant: an error adds a Terminal condition with status False
updateConditions_AppendAlways(r, err) ==
    LET ko == setStatusDefaults(r)
        conds == ko.Status.Conditions
        k == TerminalIndex(conds)
        cleared == IF k = 0 THEN conds
                   ELSE [conds EXCEPT ![k].Status = "False", ![k].Message = Nil]
        added == IF err # Nil
                 THEN Append(cleared, [Type |-> ConditionTypeTerminal,
                                       Status |-> "False", Message |-> Nil])
                 ELSE cleared
    IN  IF k # 0 \/ err # Nil
        THEN [ko |-> Ptr([ko EXCEPT !.Status.Conditions = added]),
              updated |-> TRUE]
        ELSE [ko |-> Nil, updated |-> FALSE]

\* updateConditions(r, err): (resource, updated)
updateConditions(r, err) ==
    LET ko == setStatusDefaults(r)
        conds == ko.Status.Conditions
        k == TerminalIndex(conds)
    IN  IF terminalAWSError(err)
        THEN LET all == IF k = 0
                        THEN Append(conds, [Type |-> ConditionTypeTerminal,
                                            Status |-> "", Message |-> Nil])
                        ELSE conds
                 t == IF k = 0 THEN Len(all) ELSE k
             IN  [ko |-> Ptr([ko EXCEPT !.Status.Conditions =
                                [all EXCEPT ![t].Status = "True",
                                            ![t].Message = err]]),
                  updated |-> TRUE]
        ELSE IF k # 0
             THEN [ko |-> Ptr([ko EXCEPT !.Status.Conditions =
                                [conds EXCEPT ![k].Status = "False",
                                              ![k].Message = Nil]]),
                   updated |-> TRUE]
             ELSE [ko |-> Nil, updated |-> FALSE]

\* variant: the copy shares its conditions with r, and the write to the
\* Terminal condition shows in r
updateConditionsInput_SharedConditions(r, err) ==
    LET k == TerminalIndex(r.Status.Conditions)
    IN  IF k # 0 /\ ~terminalAWSError(err)
        THEN [r EXCEPT !.Status.Conditions[k].Status = "False",
                       !.Status.Conditions[k].Message = Nil]
        ELSE r

\* r.ko once updateConditions(r, err) has returned: every write of the
\* function goes to `ko := r.ko.DeepCopy()`
updateConditionsInput(r, err) == r

Conditions ==
    [Type : {ConditionTypeTerminal, ConditionTypeResourceSynced},
     Status : {"True", "False"},
     Message : {Nil, Ptr("m")}]

RECURSIVE ConditionListsOf(_)
ConditionListsOf(n) ==
    IF n = 0 THEN {<<>>}
    ELSE {Append(cs, c) : cs \in ConditionListsOf(n - 1), c \in Conditions}

\* condition lists with at most one Terminal condition
ConditionLists ==
    {cs \in UNION {ConditionListsOf(n) : n \in 0..MaxConditions} :
        Cardinality({i \in 1..Len(cs) : cs[i].Type = ConditionTypeTerminal}) <= 1}

\* updateConditions is called on the snapshot `desired`
InitConditions ==
    /\ desired \in
        {[Snapshot(Nil, Nil, Nil, Nil, <<>>) EXCEPT !.Status.Conditions = cs] :
            cs \in ConditionLists}
    /\ remote = Repository([ScanOnPush |-> FALSE], "MUTABLE", Nil, Nil, <<>>)
    /\ latest = NoSnapshot
    /\ delta = {}
    /\ updated = Nil
    /\ pc = "conditions"
    /\ calls = <<>>
    /\ result = NoResult
    /\ prevOK = FALSE
    /\ resp = NoAnswer
    /\ ctx = "live"
    /\ pkg = PackageVars
    /\ peer = NoPeer

\* a call of updateConditions with the error of the pass, nil included
updateConditionsStep ==
    /\ pc = "conditions"
    /\ \E err \in Outcomes :
        /\ result' = [ko |-> updateConditions(desired, err).ko, err |-> err]
        /\ desired' = updateConditionsInput(desired, err)
    /\ pc' = "conditioned"
    /\ UNCHANGED <<remote, latest, delta, updated, calls, prevOK, resp,
                           ctx, pkg, peer>>

\* the caller keeps the returned snapshot, if one was returned, and the next
\* call of updateConditions is made on it
patchResourceStatus ==
    /\ pc = "conditioned"
    /\ desired' = IF result.ko # Nil THEN Deref(result.ko) ELSE desired
    /\ latest' = Ptr(desired)
    /\ result' = NoResult
    /\ pc' = "conditions"
    /\ UNCHANGED <<remote, delta, updated, calls, prevOK, resp,
                           ctx, pkg, peer>>

NextConditions ==
    \/ updateConditionsStep
    \/ patchResourceStatus

SpecConditions == InitConditions /\ [][NextConditions]_vars

-----------------------------------------------------------------------------
(* The read alone: sdkFind over describe answers, then the lifecycle read *)

\* most repository elements in a describe answer
MaxCandidates == 2

ElemFields ==
    {"CreatedAt", "EncryptionConfiguration", "ImageScanningConfiguration",
     "ImageTagMutability", "RegistryId", "RepositoryArn", "RepositoryUri"}

\* which fields an element carries: all, none, or all but one
Presences == {ElemFields, {}} \cup {ElemFields \ {f} : f \in ElemFields}

\* the values of the element at position i of an answer: no two positions
\* share a creation time, registry, ARN, URI or key
Stamp(i) == <<"c1", "c2", "c3", "c4">>[i]

Element(i, name, present) ==
    [CreatedAt |-> IF "CreatedAt" \in present THEN Ptr(Stamp(i)) ELSE Nil,
     EncryptionConfiguration |->
        IF "EncryptionConfiguration" \in present
        THEN Ptr([EncryptionType |-> Ptr("KMS"), KmsKey |-> Ptr(Stamp(i))])
        ELSE Nil,
     ImageScanningConfiguration |->
        IF "ImageScanningConfiguration" \in present
        THEN Ptr([ScanOnPush |-> Ptr(i % 2 = 1)]) ELSE Nil,
     ImageTagMutability |->
        IF "ImageTagMutability" \in present
        THEN Ptr(IF i % 2 = 1 THEN "IMMUTABLE" ELSE "MUTABLE") ELSE Nil,
     RegistryId |-> IF "RegistryId" \in present THEN Ptr(Stamp(i)) ELSE Nil,
     RepositoryArn |-> IF "RepositoryArn" \in present THEN Ptr(Stamp(i)) ELSE Nil,
     RepositoryName |-> name,
     RepositoryUri |-> IF "RepositoryUri" \in present THEN Ptr(Stamp(i)) ELSE Nil]

ElemNames == {Nil, Ptr(RepositoryName), Ptr("other")}

RECURSIVE ElementLists(_)
ElementLists(n) ==
    IF n = 0 THEN {<<>>}
    ELSE {Append(es, Element(n, name, present)) :
            es \in ElementLists(n - 1), name \in ElemNames,
            present \in Presences}

DescribeAnswers ==
    {[err |-> Ptr(e), Repositories |-> <<>>] :
        e \in {"RepositoryNotFoundException"} \cup RemoteErrors}
    \cup
    {[err |-> Nil, Repositories |-> es] :
        es \in UNION {ElementLists(n) : n \in 0..MaxCandidates}}

\* the snapshot handed to sdkFind: never read before, or read before from a
\* repository whose values are "old"
FindBases ==
    LET fresh == Snapshot(Nil, Nil, Nil, Nil, <<>>)
        stale == [fresh EXCEPT
                    !.Spec.EncryptionConfiguration =
                        Ptr([EncryptionType |-> Ptr("KMS"),
                             KMSKey |-> Ptr("old")]),
                    !.Spec.ImageScanningConfiguration =
                        Ptr([ScanOnPush |-> Ptr(FALSE)]),
                    !.Spec.ImageTagMutability = Ptr("MUTABLE"),
                    !.Spec.LifecyclePolicy = Ptr("L"),
                    !.Status.ACKResourceMetadata =
                        Ptr([ARN |-> Ptr("old"),
                             OwnerAccountID |-> Ptr(awsAccountID)]),
                    !.Status.CreatedAt = Ptr("old"),
                    !.Status.RegistryID = Ptr("old"),
                    !.Status.RepositoryURI = Ptr("old")]
        unread == [fresh EXCEPT !.Status.ACKResourceMetadata = Nil]
    IN  {[b EXCEPT !.Spec.Name = name] :
            b \in {unread, stale}, name \in {Nil, Ptr(RepositoryName)}}

LifecycleAnswers ==
    {[err |-> Ptr(e), LifecyclePolicyText |-> Nil] :
        e \in {"LifecyclePolicyNotFoundException"} \cup RemoteErrors}
    \cup {[err |-> Nil, LifecyclePolicyText |-> t] : t \in {Nil, Ptr("L0")}}

\* sdkFind is called with the snapshot `desired`; DescribeRepositories
\* answers `resp`
InitFind ==
    /\ desired \in FindBases
    /\ resp \in DescribeAnswers
    /\ ctx = "live"
    /\ pkg = PackageVars
    /\ peer = NoPeer
    /\ remote = Repository([ScanOnPush |-> FALSE], "MUTABLE", Nil, Nil, <<>>)
    /\ latest = NoSnapshot
    /\ delta = {}
    /\ updated = Nil
    /\ pc = "find"
    /\ calls = <<>>
    /\ result = NoResult
    /\ prevOK = FALSE

sdkFindStep ==
    /\ pc = "find"
    /\ result' = sdkFind(desired, resp)
    /\ pc' = "found"
    /\ UNCHANGED <<desired, remote, latest, delta, updated, calls, prevOK, resp,
                           ctx, pkg, peer>>

\* the read hook on the snapshot sdkFind built: GetLifecyclePolicy answers,
\* ko is changed in place and the error is returned
setResourceAdditionalFieldsStep ==
    /\ pc = "found"
    /\ result.err = Nil
    /\ \E answer \in LifecycleAnswers :
        LET out == setResourceAdditionalFields(Deref(result.ko), answer)
        IN  /\ resp' = answer
            /\ latest' = result.ko
            /\ result' = [ko |-> Ptr(out.ko), err |-> out.err]
    /\ pc' = "read"
    /\ UNCHANGED <<desired, remote, delta, updated, calls, prevOK,
                           ctx, pkg, peer>>

NextFind ==
    \/ sdkFindStep
    \/ setResourceAdditionalFieldsStep

SpecFind == InitFind /\ [][NextFind]_vars

\* the operations that write status fields, and the update pass: a resource
\* is created and reconciled, or sdkFind is called on a snapshot
InitStatus == InitCreate \/ InitFind

NextStatus == NextCreate \/ NextFind

SpecStatus == InitStatus /\ [][NextStatus]_vars

-----------------------------------------------------------------------------
(* Properties of the update pass *)

Count(op) == Cardinality({i \in 1..Len(calls) : calls[i].op = op})

\* the step of the canonical order a remote call belongs to
Rank(op) ==
    CASE op = "PutImageScanningConfiguration" -> 1
      [] op = "PutImageTagMutability" -> 2
      [] op \in {"PutLifecyclePolicy", "DeleteLifecyclePolicy"} -> 3
      [] op \in {"SetRepositoryPolicy", "DeleteRepositoryPolicy"} -> 4
      [] op \in {"UntagResource", "TagResource"} -> 5

\* the attribute path a remote call converges
PathOf(op) ==
    CASE Rank(op) = 1 -> "Spec.ImageScanningConfiguration"
      [] Rank(op) = 2 -> "Spec.ImageTagMutability"
      [] Rank(op) = 3 -> "Spec.LifecyclePolicy"
      [] Rank(op) = 4 -> "Spec.Policy"
      [] Rank(op) = 5 -> "Spec.Tags"

AllPaths ==
    {"Spec.ImageScanningConfiguration", "Spec.ImageTagMutability",
     "Spec.LifecyclePolicy", "Spec.Policy", "Spec.Tags"}

CallsFor(path) ==
    Cardinality({i \in 1..Len(calls) : PathOf(calls[i].op) = path})

ReturnedOK == pc = "done" /\ result.err = Nil

\* the pass has gone through step k of the canonical order: it stands at a
\* later call, has returned without error, or returned the error of step k
\* or of a later step
Passed(k) ==
    CASE pc = "done" /\ result.err = Nil -> TRUE
      [] pc = "done" /\ result.err # Nil -> Rank(calls[Len(calls)].op) >= k
      [] pc = "mutability" -> k < 2
      [] pc = "lifecycle" -> k < 3
      [] pc = "policy" -> k < 4
      [] pc \in {"untag", "tag"} -> k < 5
      [] OTHER -> FALSE

\* C1: in every pass the remote calls are issued in the order scanning
\* configuration, tag mutability, lifecycle policy, repository policy, tag
\* synchronization: no call of a lower step follows a call of a higher step.
C1_CanonicalOrder ==
    \A i, j \in 1..Len(calls) :
        i < j => Rank(calls[i].op) <= Rank(calls[j].op)

\* a pass that issued a call in each of the five steps, two of them for tags
C1_AllStepsIssued ==
    /\ ReturnedOK
    /\ Len(calls) = 6
    /\ delta = AllPaths

\* C2: a failed remote call is the last call of its pass, and the pass
\* returns no snapshot and the error of that call unchanged.
C2_FailFast ==
    \A i \in 1..Len(calls) :
        calls[i].err # Nil =>
            /\ i = Len(calls)
            /\ pc = "done"
            /\ result = [ko |-> Nil, err |-> calls[i].err]

\* the lifecycle policy call failed while policy and tags were in the
\* change set
C2_LifecycleFailed ==
    /\ pc = "done"
    /\ {"Spec.Policy", "Spec.Tags"} \subseteq delta
    /\ Len(calls) > 0
    /\ Rank(calls[Len(calls)].op) = 3
    /\ calls[Len(calls)].err = Ptr("ServerException")

\* the keys of latest that desired lacks, and the tags of desired that
\* latest lacks or holds with another value
SameValue(u, v) == (u \in {Nil, Ptr("")} /\ v \in {Nil, Ptr("")}) \/ u = v
Range(seq) == {seq[i] : i \in 1..Len(seq)}
KeysOf(tags) == {tags[i].Key : i \in 1..Len(tags)}
RemovedKeys == KeysOf(Deref(latest).Spec.Tags) \ KeysOf(desired.Spec.Tags)
ChangedTags ==
    {t \in Range(desired.Spec.Tags) :
        ~ \E u \in Range(Deref(latest).Spec.Tags) :
            u.Key = t.Key /\ SameValue(u.Value, t.Value)}

\* C3 as stated: a pass that returns without error has issued exactly one
\* remote call for each attribute of the change set, Spec.Tags included.
C3_ExactlyOneCallPerAttribute ==
    ReturnedOK => \A path \in delta : CallsFor(path) = 1

\* C3: a pass that returns without error has issued exactly one remote call
\* for each of the scanning configuration, tag mutability, lifecycle policy
\* and policy attributes of the change set; for Spec.Tags it has issued one
\* remove-tags call if a key is to be removed and one add-tags call if a tag
\* is to be added or updated, which can be two calls.
C3_OneCallPerAttribute ==
    ReturnedOK =>
        /\ \A path \in delta \ {"Spec.Tags"} : CallsFor(path) = 1
        /\ "Spec.Tags" \in delta =>
            /\ Count("UntagResource") = (IF RemovedKeys # {} THEN 1 ELSE 0)
            /\ Count("TagResource") = (IF ChangedTags # {} THEN 1 ELSE 0)

\* a pass over the whole change set whose tag step issued both calls
C3_TwoTagCalls ==
    /\ ReturnedOK
    /\ delta = AllPaths
    /\ Count("UntagResource") = 1
    /\ Count("TagResource") = 1
    /\ CallsFor("Spec.LifecyclePolicy") = 1

\* C4: no remote call is issued for an attribute absent from the change
\* set, and with an empty change set the pass issues no call and returns
\* the desired snapshot.
C4_NoCallWithoutDifference ==
    /\ \A i \in 1..Len(calls) : PathOf(calls[i].op) \in delta
    /\ (pc = "done" /\ delta = {}) =>
            /\ calls = <<>>
            /\ result = [ko |-> Ptr(desired), err |-> Nil]

\* a pass with an empty change set has returned
C4_EmptyChangeSet ==
    /\ pc = "done"
    /\ delta = {}
    /\ calls = <<>>
    /\ result.ko = Ptr(desired)


\* C5: after a pass returned without error, the next pass, run against the
\* latest snapshot read again from the repository, computes an empty change
\* set and issues no remote call, whatever the desired snapshot.
C5_Idempotence ==
    (prevOK /\ pc # "idle") => (delta = {} /\ calls = <<>>)

\* C6: a policy (lifecycle policy) step whose desired text is absent or
\* empty issues exactly one delete call and no set call, and no set call
\* ever carries an absent or empty text.
C6_DeleteWhenAbsent ==
    /\ \A i \in 1..Len(calls) :
        /\ calls[i].op = "SetRepositoryPolicy" =>
                calls[i].input.PolicyText \notin {Nil, Ptr("")}
        /\ calls[i].op = "PutLifecyclePolicy" =>
                calls[i].input.LifecyclePolicyText \notin {Nil, Ptr("")}
    /\ ("Spec.Policy" \in delta /\ Passed(4)
            /\ desired.Spec.Policy \in {Nil, Ptr("")}) =>
            /\ Count("DeleteRepositoryPolicy") = 1
            /\ Count("SetRepositoryPolicy") = 0
    /\ ("Spec.LifecyclePolicy" \in delta /\ Passed(3)
            /\ desired.Spec.LifecyclePolicy \in {Nil, Ptr("")}) =>
            /\ Count("DeleteLifecyclePolicy") = 1
            /\ Count("PutLifecyclePolicy") = 0

\* desired clears the policy with the empty string while latest holds one
C6_PolicyCleared ==
    /\ ReturnedOK
    /\ desired.Spec.Policy = Ptr("")
    /\ Deref(latest).Spec.Policy = Ptr("P0")
    /\ Count("DeleteRepositoryPolicy") = 1

\* C7: a policy (lifecycle policy) step whose desired text is non-empty
\* while latest holds none issues exactly one set call, carrying the desired
\* text, and no delete call.
C7_SetWhenPresent ==
    /\ ("Spec.Policy" \in delta /\ Passed(4)
            /\ desired.Spec.Policy \notin {Nil, Ptr("")}
            /\ Deref(latest).Spec.Policy = Nil) =>
            /\ Count("SetRepositoryPolicy") = 1
            /\ Count("DeleteRepositoryPolicy") = 0
            /\ \A i \in 1..Len(calls) :
                calls[i].op = "SetRepositoryPolicy" =>
                    calls[i].input.PolicyText = desired.Spec.Policy
    /\ ("Spec.LifecyclePolicy" \in delta /\ Passed(3)
            /\ desired.Spec.LifecyclePolicy \notin {Nil, Ptr("")}
            /\ Deref(latest).Spec.LifecyclePolicy = Nil) =>
            /\ Count("PutLifecyclePolicy") = 1
            /\ Count("DeleteLifecyclePolicy") = 0
            /\ \A i \in 1..Len(calls) :
                calls[i].op = "PutLifecyclePolicy" =>
                    calls[i].input.LifecyclePolicyText =
                        desired.Spec.LifecyclePolicy

\* both texts were set on a repository that held neither
C7_BothSet ==
    /\ ReturnedOK
    /\ Deref(latest).Spec.Policy = Nil
    /\ Deref(latest).Spec.LifecyclePolicy = Nil
    /\ Count("SetRepositoryPolicy") = 1
    /\ Count("PutLifecyclePolicy") = 1

\* C8: once the pass is beyond the scanning (mutability) step of a change
\* set that names the attribute, it has issued exactly one set call: with
\* the default when the desired value is absent, with the desired value
\* when it is present.
C8_ConfigAlwaysSet ==
    /\ ("Spec.ImageScanningConfiguration" \in delta /\ pc # "scan") =>
            /\ Count("PutImageScanningConfiguration") = 1
            /\ \A i \in 1..Len(calls) :
                calls[i].op = "PutImageScanningConfiguration" =>
                    calls[i].input.ImageScanningConfiguration.ScanOnPush =
                        IF desired.Spec.ImageScanningConfiguration = Nil
                        THEN FALSE
                        ELSE Deref(Deref(
                            desired.Spec.ImageScanningConfiguration).ScanOnPush)
    /\ ("Spec.ImageTagMutability" \in delta /\ Passed(2)) =>
            /\ Count("PutImageTagMutability") = 1
            /\ \A i \in 1..Len(calls) :
                calls[i].op = "PutImageTagMutability" =>
                    calls[i].input.ImageTagMutability =
                        IF desired.Spec.ImageTagMutability = Nil
                        THEN "MUTABLE"
                        ELSE Deref(desired.Spec.ImageTagMutability)

\* C21: the snapshot each step that succeeded hands to the next step, and
\* the snapshot a pass returns without error, is the desired snapshot, equal
\* in every spec and status field: nothing the service answered is merged.
C21_ReturnsDesiredUnchanged ==
    /\ pc \in {"scan", "mutability", "lifecycle", "policy", "untag", "tag"} =>
            updated = Ptr(desired)
    /\ ReturnedOK => result.ko = Ptr(desired)

\* a pass of four calls or more returned without error, and the latest
\* snapshot it read differs from the desired one in spec and in status
C21_ReturnedAfterCalls ==
    /\ ReturnedOK
    /\ Len(calls) >= 4
    /\ Deref(latest).Spec # desired.Spec
    /\ Deref(latest).Status # desired.Status
    /\ Deref(result.ko) = desired

\* a text is absent or empty
Blank(p) == p = Nil \/ p = Ptr("")

\* C26: an absent text and the empty text are equal in both argument orders,
\* two absent texts are equal, an absent and a non-empty text differ; in a
\* pass, Spec.Policy (Spec.LifecyclePolicy) is in the change set exactly when
\* desired and latest are not both blank and not the same text, so desired ""
\* against latest absent gives no Spec.Policy difference.
C26_BlankEqualsNil ==
    /\ equalStrings(Nil, Ptr("")) /\ equalStrings(Ptr(""), Nil)
    /\ equalStrings(Nil, Nil)
    /\ ~equalStrings(Nil, Ptr("x")) /\ ~equalStrings(Ptr("x"), Nil)
    /\ pc # "idle" =>
        /\ ("Spec.Policy" \in delta) <=>
                ~ \/ Blank(desired.Spec.Policy) /\ Blank(Deref(latest).Spec.Policy)
                  \/ desired.Spec.Policy = Deref(latest).Spec.Policy
        /\ ("Spec.LifecyclePolicy" \in delta) <=>
                ~ \/ /\ Blank(desired.Spec.LifecyclePolicy)
                     /\ Blank(Deref(latest).Spec.LifecyclePolicy)
                  \/ desired.Spec.LifecyclePolicy =
                        Deref(latest).Spec.LifecyclePolicy

\* desired policy "" against a repository without policy: no difference
C26_EmptyAgainstAbsent ==
    /\ pc = "done"
    /\ desired.Spec.Policy = Ptr("")
    /\ Deref(latest).Spec.Policy = Nil
    /\ "Spec.Policy" \notin delta
    /\ Count("DeleteRepositoryPolicy") = 0

AloneInput(des, op) ==
    IF op = "PutImageScanningConfiguration"
    THEN [RepositoryName |-> Deref(des.Spec.Name),
          ImageScanningConfiguration |->
            IF des.Spec.ImageScanningConfiguration = Nil
            THEN [ScanOnPush |-> FALSE]
            ELSE [ScanOnPush |->
                    Deref(Deref(des.Spec.ImageScanningConfiguration).ScanOnPush)]]
    ELSE [RepositoryName |-> Deref(des.Spec.Name),
          ImageTagMutability |->
            IF des.Spec.ImageTagMutability = Nil THEN "MUTABLE"
            ELSE Deref(des.Spec.ImageTagMutability)]

\* the calls a pass with change set d issues when every call succeeds
AloneOps(d) ==
    (IF "Spec.ImageScanningConfiguration" \in d
     THEN <<"PutImageScanningConfiguration">> ELSE <<>>)
    \o (IF "Spec.ImageTagMutability" \in d
        THEN <<"PutImageTagMutability">> ELSE <<>>)

\* the pass (des, lat, d, cs, p, res) on the repository rem has issued the
\* calls and returned the snapshot of a pass that runs alone, and the
\* repository holds what the pass read except where its own calls wrote
RunsAsAlone(des, lat, d, cs, p, res, rem) ==
    /\ Len(cs) <= Len(AloneOps(d))
    /\ \A i \in 1..Len(cs) :
        /\ cs[i].op = AloneOps(d)[i]
        /\ cs[i].input = AloneInput(des, cs[i].op)
        /\ cs[i].err # Nil => (i = Len(cs) /\ res = [ko |-> Nil, err |-> cs[i].err])
    /\ (p = "done" /\ res.err = Nil) =>
        /\ Len(cs) = Len(AloneOps(d))
        /\ res.ko = Ptr(des)
    /\ lat # Nil =>
        /\ rem.ImageScanningConfiguration.ScanOnPush =
            IF \E i \in 1..Len(cs) :
                cs[i].op = "PutImageScanningConfiguration" /\ cs[i].err = Nil
            THEN AloneInput(des, "PutImageScanningConfiguration")
                    .ImageScanningConfiguration.ScanOnPush
            ELSE Deref(Deref(Deref(lat).Spec.ImageScanningConfiguration).ScanOnPush)
        /\ rem.ImageTagMutability =
            IF \E i \in 1..Len(cs) :
                cs[i].op = "PutImageTagMutability" /\ cs[i].err = Nil
            THEN AloneInput(des, "PutImageTagMutability").ImageTagMutability
            ELSE Deref(Deref(lat).Spec.ImageTagMutability)

\* C24: two passes for distinct resources, interleaved, do not interfere:
\* the package-level defaults keep their initial values, and each pass
\* issues the calls, returns the snapshot and leaves its repository as it
\* does when it runs alone, also when both use the package defaults.
C24_PassesDoNotInterfere ==
    /\ pkg = PackageVars
    /\ RunsAsAlone(desired, latest, delta, calls, pc, result, remote)
    /\ peer.pc # "absent" =>
        RunsAsAlone(peer.desired, peer.latest, peer.delta, peer.calls,
                    peer.pc, peer.result, peer.remote)

\* both passes have sent the package default of the scanning configuration
\* and neither has reached its mutability call's answer
C24_BothSentDefault ==
    /\ peer.pc = "mutability"
    /\ pc = "mutability"
    /\ desired.Spec.ImageScanningConfiguration = Nil
    /\ peer.desired.Spec.ImageScanningConfiguration = Nil
    /\ calls[1].input.ImageScanningConfiguration = defaultImageScanningConfig
    /\ peer.calls[1].input.ImageScanningConfiguration =
            defaultImageScanningConfig
    /\ calls[1].input.RepositoryName # peer.calls[1].input.RepositoryName

-----------------------------------------------------------------------------
(* Properties of the tag synchronization *)

\* C9: the tag step issues at most one remove-tags call, which carries
\* exactly the keys of latest that desired lacks, and at most one add-tags
\* call, which carries exactly the added and the updated tags; neither call
\* is issued with an empty list, and a step that returned without error has
\* issued each call whose list is not empty.
C9_TagSyncCalls ==
    pc # "idle" =>
        /\ Count("UntagResource") <= 1
        /\ Count("TagResource") <= 1
        /\ \A i \in 1..Len(calls) :
            /\ calls[i].op = "UntagResource" =>
                /\ Range(calls[i].input.TagKeys) = RemovedKeys
                /\ Len(calls[i].input.TagKeys) = Cardinality(RemovedKeys)
                /\ RemovedKeys # {}
            /\ calls[i].op = "TagResource" =>
                /\ Range(calls[i].input.Tags) = ChangedTags
                /\ Len(calls[i].input.Tags) = Cardinality(ChangedTags)
                /\ ChangedTags # {}
        /\ ReturnedOK =>
            /\ (Count("UntagResource") = 1) <=> (RemovedKeys # {})
            /\ (Count("TagResource") = 1) <=> (ChangedTags # {})

\* desired holds no tag, latest holds {a:1, b:2}: one remove-tags call with
\* the keys [a, b] and no add-tags call
C9_RemoveBoth ==
    /\ ReturnedOK
    /\ desired.Spec.Tags = <<>>
    /\ Deref(latest).Spec.Tags =
        <<[Key |-> "a", Value |-> Ptr("1")], [Key |-> "b", Value |-> Ptr("2")]>>
    /\ Len(calls) = 1
    /\ calls[1].op = "UntagResource"
    /\ calls[1].input.TagKeys = <<"a", "b">>

\* C28: in the tag step no remove-tags call follows an add-tags call; a
\* remove-tags call that failed is the last call of the pass, whose result
\* is that error; the keys of the remove-tags call are keys desired lacks,
\* so no key of an updated tag is among them, and every updated tag is in
\* the add-tags call.
C28_UntagBeforeTag ==
    /\ \A i, j \in 1..Len(calls) :
        (calls[i].op = "TagResource" /\ calls[j].op = "UntagResource") => j < i
    /\ \A i \in 1..Len(calls) :
        /\ (calls[i].op = "UntagResource" /\ calls[i].err # Nil) =>
            /\ Count("TagResource") = 0
            /\ pc = "done"
            /\ result = [ko |-> Nil, err |-> calls[i].err]
        /\ calls[i].op = "UntagResource" =>
            Range(calls[i].input.TagKeys) \cap KeysOf(desired.Spec.Tags) = {}
        /\ calls[i].op = "TagResource" =>
            \A t \in Range(desired.Spec.Tags) :
                (\E u \in Range(Deref(latest).Spec.Tags) :
                    u.Key = t.Key /\ ~SameValue(u.Value, t.Value))
                => t \in Range(calls[i].input.Tags)
    /\ (ReturnedOK /\ RemovedKeys # {} /\ ChangedTags # {}) =>
            (calls[1].op = "UntagResource" /\ calls[2].op = "TagResource")

\* a key was to be removed and a tag to be updated; the remove-tags call
\* failed and no add-tags call was issued
C28_UntagFailed ==
    /\ pc = "done"
    /\ Len(calls) = 1
    /\ calls[1].op = "UntagResource"
    /\ calls[1].err = Ptr("ServerException")
    /\ \E t \in Range(desired.Spec.Tags) :
        \E u \in Range(Deref(latest).Spec.Tags) :
            u.Key = t.Key /\ ~SameValue(u.Value, t.Value)
    /\ result.err = Ptr("ServerException")

EmptyTagsDelta == [added |-> <<>>, updated |-> <<>>, removed |-> <<>>]

DeltaWellFormed(a, b) ==
    LET d == computeTagsDelta(a, b)
        ka == KeysOf(d.added)
        ku == KeysOf(d.updated)
        kr == Range(d.removed)
    IN  /\ ka \cap ku = {}
        /\ ka \cap kr = {}
        /\ ku \cap kr = {}
        /\ \A t \in Range(a), u \in Range(b) :
            (t.Key = u.Key /\ SameValue(t.Value, u.Value)) =>
                t.Key \notin (ka \cup ku \cup kr)

LatestTags == IF latest = NoSnapshot THEN <<>> ELSE Deref(latest).Spec.Tags

\* C10: the added, updated and removed partitions of the tag delta of two
\* tag lists share no key, a key with the same value in both lists is in
\* none of them, and the delta of a list with itself is empty.
C10_TagsDeltaPartition ==
    /\ DeltaWellFormed(LatestTags, desired.Spec.Tags)
    /\ DeltaWellFormed(desired.Spec.Tags, LatestTags)
    /\ computeTagsDelta(LatestTags, LatestTags) = EmptyTagsDelta
    /\ computeTagsDelta(desired.Spec.Tags, desired.Spec.Tags) = EmptyTagsDelta

\* a pass whose tag delta has a removed key, an updated tag and an added tag
C10_MixedDelta ==
    /\ pc = "tag"
    /\ LET d == computeTagsDelta(LatestTags, desired.Spec.Tags)
       IN  /\ Len(d.removed) = 1
           /\ Len(d.updated) = 1
           /\ Len(d.added) = 1

\* the key/value pairs of a tag list, an absent value read as the empty one
PairsOf(tags) ==
    {<<t.Key, IF t.Value = Nil THEN Ptr("") ELSE t.Value>> : t \in Range(tags)}

\* C11: the change set names Spec.Tags exactly when a key of latest is
\* missing from desired or a tag of desired is missing from latest or held
\* there with another value; two snapshots with the same key/value pairs,
\* in whatever order, give no Spec.Tags difference and no tag call.
C11_TagOrderIndependent ==
    pc # "idle" =>
        /\ ("Spec.Tags" \in delta) <=> (RemovedKeys # {} \/ ChangedTags # {})
        /\ PairsOf(desired.Spec.Tags) = PairsOf(Deref(latest).Spec.Tags) =>
            /\ "Spec.Tags" \notin delta
            /\ Count("UntagResource") = 0
            /\ Count("TagResource") = 0

\* desired holds [b:2, a:1] and latest [a:1, b:2]: the pass has returned
\* with an empty change set
C11_SamePairsOtherOrder ==
    /\ pc = "done"
    /\ desired.Spec.Tags =
        <<[Key |-> "b", Value |-> Ptr("2")], [Key |-> "a", Value |-> Ptr("1")]>>
    /\ Deref(latest).Spec.Tags =
        <<[Key |-> "a", Value |-> Ptr("1")], [Key |-> "b", Value |-> Ptr("2")]>>
    /\ delta = {}
    /\ calls = <<>>

-----------------------------------------------------------------------------
(* Properties of the read *)

Elems == resp.Repositories

\* identity filtering: an element is passed over only if it and the
\* snapshot both carry a name and the names differ
Survives(e) ==
    \/ e.RepositoryName = Nil
    \/ desired.Spec.Name = Nil
    \/ e.RepositoryName = desired.Spec.Name

Survivors == {i \in 1..Len(Elems) : Survives(Elems[i])}
FirstSurvivor == CHOOSE i \in Survivors : \A j \in Survivors : i <= j

\* the value a snapshot holds for a field of a repository element
SnapshotField(ko, f) ==
    CASE f = "CreatedAt" -> ko.Status.CreatedAt
      [] f = "RegistryId" -> ko.Status.RegistryID
      [] f = "RepositoryUri" -> ko.Status.RepositoryURI
      [] f = "RepositoryArn" ->
            IF ko.Status.ACKResourceMetadata = Nil THEN Nil
            ELSE Deref(ko.Status.ACKResourceMetadata).ARN
      [] f = "EncryptionConfiguration" ->
            IF ko.Spec.EncryptionConfiguration = Nil THEN Nil
            ELSE Ptr([EncryptionType |->
                        Deref(ko.Spec.EncryptionConfiguration).EncryptionType,
                      KmsKey |-> Deref(ko.Spec.EncryptionConfiguration).KMSKey])
      [] f = "ImageScanningConfiguration" -> ko.Spec.ImageScanningConfiguration
      [] f = "ImageTagMutability" -> ko.Spec.ImageTagMutability

FoundOK == pc = "found" /\ result.err = Nil

\* C12: when the describe answer holds two elements with different names
\* and the snapshot's name is the second one's, sdkFind returns a snapshot
\* in which every field is the second element's value or, where that
\* element carries none, the base snapshot's: no value of the first element.
C12_NoFieldOfOtherCandidate ==
    (/\ pc = "found"
     /\ resp.err = Nil
     /\ Len(Elems) = 2
     /\ Elems[1].RepositoryName # Nil
     /\ Elems[2].RepositoryName # Nil
     /\ Elems[1].RepositoryName # Elems[2].RepositoryName
     /\ desired.Spec.Name = Elems[2].RepositoryName)
    => /\ result.err = Nil
       /\ \A f \in ElemFields :
            SnapshotField(Deref(result.ko), f)
                \in {Elems[2][f], SnapshotField(desired, f)}

\* C13: sdkFind returns NotFound and no snapshot when no element of the
\* answer survives identity filtering (an empty answer included) and when
\* the describe call fails with RepositoryNotFoundException; any other
\* error of the call is returned as it is, with no snapshot; and when an
\* element survives, a snapshot and no error are returned.
C13_NotFoundOnlyWhenAbsent ==
    pc = "found" =>
        /\ (resp.err = Nil /\ Survivors = {}) =>
                result = [ko |-> Nil, err |-> NotFound]
        /\ resp.err = Ptr("RepositoryNotFoundException") =>
                result = [ko |-> Nil, err |-> NotFound]
        /\ (resp.err # Nil /\ resp.err # Ptr("RepositoryNotFoundException")) =>
                result = [ko |-> Nil, err |-> resp.err]
        /\ (resp.err = Nil /\ Survivors # {}) =>
                (result.err = Nil /\ result.ko # Nil)

\* two elements, both with a name other than the snapshot's: NotFound
C13_AllFilteredOut ==
    /\ pc = "found"
    /\ resp.err = Nil
    /\ Len(Elems) = 2
    /\ Survivors = {}
    /\ result = [ko |-> Nil, err |-> NotFound]

\* C14: in the snapshot sdkFind returns, creation time, registry id, ARN and
\* repository URI are those of the merged element, absent where the element
\* carries none; encryption, scanning configuration, mutability and name are
\* the element's where it carries them and the base snapshot's otherwise.
C14_StatusAlwaysOverwritten ==
    FoundOK =>
        LET m == Elems[FirstSurvivor]
            ko == Deref(result.ko)
        IN  /\ \A f \in {"CreatedAt", "RegistryId", "RepositoryArn",
                         "RepositoryUri"} :
                    SnapshotField(ko, f) = m[f]
            /\ \A f \in {"EncryptionConfiguration",
                         "ImageScanningConfiguration", "ImageTagMutability"} :
                    SnapshotField(ko, f) =
                        IF m[f] # Nil THEN m[f] ELSE SnapshotField(desired, f)
            /\ ko.Spec.Name = IF m.RepositoryName # Nil THEN m.RepositoryName
                              ELSE desired.Spec.Name

\* C15: the snapshot sdkFind returns is the base snapshot with exactly one
\* element merged into it, the first element in answer order that survives
\* identity filtering, and with the status defaults set; when no element
\* survives no snapshot is returned.
C15_ExactlyOneCandidateMerged ==
    pc = "found" =>
        IF resp.err = Nil /\ Survivors # {}
        THEN result =
                [ko |-> Ptr(setStatusDefaults(
                            sdkFindElem(desired, Elems[FirstSurvivor]).ko)),
                 err |-> Nil]
        ELSE result.ko = Nil

\* C20: setResourceAdditionalFields turns a LifecyclePolicyNotFoundException
\* into an absent lifecycle policy and no error, returns any other error as
\* it is and leaves the snapshot alone, and on an answer that carries a text
\* sets the lifecycle policy to that text and returns no error.
C20_LifecycleNotFoundRecovered ==
    pc = "read" =>
        LET before == Deref(latest)
            after == Deref(result.ko)
        IN  /\ resp.err = Ptr("LifecyclePolicyNotFoundException") =>
                /\ result.err = Nil
                /\ after = [before EXCEPT !.Spec.LifecyclePolicy = Nil]
            /\ (resp.err # Nil
                    /\ resp.err # Ptr("LifecyclePolicyNotFoundException")) =>
                /\ result.err = resp.err
                /\ after = before
            /\ (resp.err = Nil /\ resp.LifecyclePolicyText # Nil) =>
                /\ result.err = Nil
                /\ after = [before EXCEPT !.Spec.LifecyclePolicy =
                                            resp.LifecyclePolicyText]

\* the snapshot held the lifecycle policy "L" and the read answered not
\* found: the policy is absent and no error came back
C20_PolicyGone ==
    /\ pc = "read"
    /\ resp.err = Ptr("LifecyclePolicyNotFoundException")
    /\ Deref(latest).Spec.LifecyclePolicy = Ptr("L")
    /\ Deref(result.ko).Spec.LifecyclePolicy = Nil
    /\ result.err = Nil

-----------------------------------------------------------------------------
(* Properties of the creation *)

\* the snapshot carries a synced condition with status False
SyncedFalse(ko) ==
    \E i \in 1..Len(ko.Status.Conditions) :
        /\ ko.Status.Conditions[i].Type = "ACK.ResourceSynced"
        /\ ko.Status.Conditions[i].Status = "False"

\* the remote create succeeded and a follow-up call of the hook failed
FollowUpFailed ==
    /\ pc = "created"
    /\ Len(calls) >= 2
    /\ calls[1].op = "CreateRepository"
    /\ calls[1].err = Nil
    /\ calls[Len(calls)].err # Nil

\* C16: when the remote create succeeded and the follow-up call that sets
\* the policy or the lifecycle policy failed, sdkCreate returns the created
\* snapshot, marked synced=false, together with the error as the signal to
\* retry, not a failed create without snapshot.
C16_FollowUpFailureKeepsSnapshot ==
    FollowUpFailed =>
        /\ result.ko # Nil
        /\ SyncedFalse(Deref(result.ko))
        /\ result.err # Nil

\* sdkCreate is running or has returned
Creating == pc \in {"createPolicy", "createLifecycle", "created"}

\* C29: the create request has no policy and no lifecycle policy field; the
\* calls that follow it in sdkCreate are set-policy calls with the desired
\* non-empty policy and set-lifecycle-policy calls with the desired non-empty
\* lifecycle policy, never a delete call; and a creation that returned
\* without error has issued each of the two exactly when its text is
\* non-empty.
C29_CreateWithoutPolicies ==
    Creating =>
        /\ calls[1].op = "CreateRepository"
        /\ DOMAIN calls[1].input =
            {"EncryptionConfiguration", "ImageScanningConfiguration",
             "ImageTagMutability", "RepositoryName", "Tags"}
        /\ \A i \in 2..Len(calls) :
            \/ /\ calls[i].op = "SetRepositoryPolicy"
               /\ ~Blank(desired.Spec.Policy)
               /\ calls[i].input.PolicyText = desired.Spec.Policy
            \/ /\ calls[i].op = "PutLifecyclePolicy"
               /\ ~Blank(desired.Spec.LifecyclePolicy)
               /\ calls[i].input.LifecyclePolicyText =
                    desired.Spec.LifecyclePolicy
        /\ (pc = "created" /\ result.err = Nil) =>
            /\ Count("SetRepositoryPolicy") =
                (IF Blank(desired.Spec.Policy) THEN 0 ELSE 1)
            /\ Count("PutLifecyclePolicy") =
                (IF Blank(desired.Spec.LifecyclePolicy) THEN 0 ELSE 1)

\* a resource with policy "" and lifecycle policy "L" was created: the
\* create call and one set-lifecycle-policy call
C29_OnlyLifecycleSet ==
    /\ pc = "created"
    /\ result.err = Nil
    /\ desired.Spec.Policy = Ptr("")
    /\ desired.Spec.LifecyclePolicy = Ptr("L")
    /\ Len(calls) = 2
    /\ calls[2].op = "PutLifecyclePolicy"

\* a call of sdkCreate that failed is its last, and sdkCreate returned its
\* error
CreateStopsAtFailure ==
    \A i \in 1..Len(calls) :
        calls[i].err # Nil =>
            /\ i = Len(calls)
            /\ pc = "created"
            /\ result.err = calls[i].err

-----------------------------------------------------------------------------
(* Properties of the status fields *)

\* the status fields and the identity key of a snapshot
StatusAndKey(ko) == [Status |-> ko.Status, Name |-> ko.Spec.Name]

\* a failed describe or create call is followed by no snapshot; in the
\* update pass the snapshot handed from step to step, and the one returned,
\* have the status fields and the name of the desired one
StatusWrittenOnlyAfterSuccess ==
    /\ (pc = "found" /\ resp.err # Nil) => result.ko = Nil
    /\ (pc = "created" /\ calls[1].op = "CreateRepository"
            /\ calls[1].err # Nil) =>
            /\ result.ko = Nil
            /\ updated = Nil
            /\ remote = NoRepository
    /\ (pc = "created" /\ result.ko # Nil) =>
            \A i \in 1..Len(calls) : calls[i].err = Nil
    /\ pc \in {"scan", "mutability", "lifecycle", "policy"} =>
            StatusAndKey(Deref(updated)) = StatusAndKey(desired)
    /\ (pc = "done" /\ result.ko # Nil) =>
            StatusAndKey(Deref(result.ko)) = StatusAndKey(desired)

\* C23: when the create or the describe call fails, sdkCreate and sdkFind
\* return no snapshot; no step of customUpdateRepository changes a status
\* field or the name of the snapshot it returns; and no operation modifies
\* the snapshot it was given.
C23_StatusOnlyFromSuccessfulCall ==
    /\ []StatusWrittenOnlyAfterSuccess
    /\ [][desired' = desired]_vars

\* sdkFind was called on a snapshot read before, the describe call failed,
\* and sdkFind returned the error without a snapshot
C23_DescribeFailed ==
    /\ pc = "found"
    /\ resp.err = Ptr("ServerException")
    /\ desired.Status.CreatedAt = Ptr("old")
    /\ result = [ko |-> Nil, err |-> Ptr("ServerException")]

-----------------------------------------------------------------------------
(* Properties of the deletion *)

\* the force flag of a set of annotations, by cases on the annotation's text
ExpectedForce(annotations) ==
    CASE AnnotationDeleteForce \notin DOMAIN annotations -> DefaultDeleteForce
      [] OTHER ->
            LET t == annotations[AnnotationDeleteForce]
            IN  CASE t \in {"1", "t", "T", "TRUE", "true", "True"} -> TRUE
                  [] t \in {"0", "f", "F", "FALSE", "false", "False"} -> FALSE
                  [] OTHER -> DefaultDeleteForce

\* C25: GetDeleteForce returns DefaultDeleteForce when the annotation is
\* absent or its text does not parse as a boolean, and the parsed boolean
\* (true for "true") when it does; it returns a boolean for every set of
\* annotations, and the delete request carries that boolean.
C25_DeleteForceDefaultsOnBadInput ==
    /\ GetDeleteForce([Annotations |-> NoAnnotations]) = DefaultDeleteForce
    /\ GetDeleteForce([Annotations |->
            [k \in {AnnotationDeleteForce} |-> "not-a-bool"]])
            = DefaultDeleteForce
    /\ GetDeleteForce([Annotations |->
            [k \in {AnnotationDeleteForce} |-> "true"]]) = TRUE
    /\ GetDeleteForce(desired.ObjectMeta) \in BOOLEAN
    /\ pc = "deleted" =>
            calls[1].input.Force = ExpectedForce(desired.ObjectMeta.Annotations)

\* a resource whose force annotation does not parse was deleted with the
\* default force flag
C25_BadAnnotationDeleted ==
    /\ pc = "deleted"
    /\ AnnotationDeleteForce \in DOMAIN desired.ObjectMeta.Annotations
    /\ desired.ObjectMeta.Annotations[AnnotationDeleteForce] = "not-a-bool"
    /\ calls[1].input.Force = DefaultDeleteForce
    /\ result.err = Nil

-----------------------------------------------------------------------------
(* Properties of convergence under retry *)

\* the repository holds the scanning configuration, the mutability, the
\* lifecycle policy, the policy and the tags of the desired snapshot, an
\* absent attribute standing for its default or for no policy
RemoteEqualsDesired ==
    /\ remote.ImageScanningConfiguration.ScanOnPush =
        (IF desired.Spec.ImageScanningConfiguration = Nil
            \/ Deref(desired.Spec.ImageScanningConfiguration).ScanOnPush = Nil
         THEN FALSE
         ELSE Deref(Deref(desired.Spec.ImageScanningConfiguration).ScanOnPush))
    /\ remote.ImageTagMutability =
        (IF desired.Spec.ImageTagMutability = Nil THEN "MUTABLE"
         ELSE Deref(desired.Spec.ImageTagMutability))
    /\ IF Blank(desired.Spec.LifecyclePolicy)
       THEN remote.LifecyclePolicyText = Nil
       ELSE remote.LifecyclePolicyText = desired.Spec.LifecyclePolicy
    /\ IF Blank(desired.Spec.Policy)
       THEN remote.PolicyText = Nil
       ELSE remote.PolicyText = desired.Spec.Policy
    /\ {<<t.Key, Ptr(t.Value)>> : t \in Range(remote.Tags)} =
            PairsOf(desired.Spec.Tags)

Converged == ReturnedOK /\ RemoteEqualsDesired

\* C27: under retry, with every call eventually succeeding, a pass
\* eventually returns without error with the repository's scanning
\* configuration, mutability, lifecycle policy, policy and tags equal to the
\* desired ones.
C27_EventuallyConverged == <>Converged

-----------------------------------------------------------------------------
(* Properties of the conditions *)

TerminalCount(conds) ==
    Cardinality({i \in 1..Len(conds) : conds[i].Type = ConditionTypeTerminal})

IsTerminalTrue(c) == c.Type = ConditionTypeTerminal /\ c.Status = "True"

\* the condition list after the call: the returned snapshot's, or the
\* caller's own when updateConditions returned none
ConditionsAfter ==
    IF result.ko # Nil THEN Deref(result.ko).Status.Conditions
    ELSE desired.Status.Conditions

\* C17: terminalAWSError is false for every error and for no error, and a
\* call of updateConditions never sets a Terminal condition to True: a
\* Terminal condition that is True after the call stood in the same place,
\* True, before it.
C17_NoTerminalError ==
    /\ \A err \in Outcomes : ~terminalAWSError(err)
    /\ pc = "conditioned" =>
        \A i \in 1..Len(ConditionsAfter) :
            IsTerminalTrue(ConditionsAfter[i]) =>
                /\ i <= Len(desired.Status.Conditions)
                /\ IsTerminalTrue(desired.Status.Conditions[i])

\* updateConditions was called with InvalidParameterException on a snapshot
\* without Terminal condition: it returned not updated
C17_ErrorNotTerminal ==
    /\ pc = "conditioned"
    /\ result.err = Ptr("InvalidParameterException")
    /\ Len(desired.Status.Conditions) = 1
    /\ TerminalCount(desired.Status.Conditions) = 0
    /\ result.ko = Nil

C19_AtMostOneTerminal ==
    /\ TerminalCount(desired.Status.Conditions) <= 1
    /\ pc = "conditioned" => TerminalCount(ConditionsAfter) <= 1

\* a second call, made with an error on the snapshot the first call
\* returned, returned a snapshot with one Terminal condition
C19_SecondCall ==
    /\ pc = "conditioned"
    /\ latest # NoSnapshot
    /\ result.err # Nil
    /\ result.ko # Nil
    /\ TerminalCount(Deref(result.ko).Status.Conditions) = 1
    /\ Len(Deref(result.ko).Status.Conditions) = 2

\* what updateConditions returns for the snapshot and the error of the last
\* call: no snapshot and not updated exactly when the snapshot holds no
\* Terminal condition and the error is not terminal
NotUpdatedExactlyWithoutTerminal ==
    pc = "conditioned" =>
        LET out == updateConditions(desired, result.err)
            none == /\ TerminalCount(desired.Status.Conditions) = 0
                    /\ ~terminalAWSError(result.err)
        IN  /\ result.ko = out.ko
            /\ out.updated <=> out.ko # Nil
            /\ ~out.updated <=> none

\* C31: a call of updateConditions leaves the snapshot it is given as it
\* was, and it returns no snapshot and not updated exactly when that
\* snapshot holds no Terminal condition and the error is not terminal.
C31_InputKeptNotUpdatedWithoutTerminal ==
    /\ []NotUpdatedExactlyWithoutTerminal
    /\ [][pc = "conditions" => desired' = desired]_vars

\* updateConditions was called with an error on a snapshot whose second
\* condition is Terminal = True: the returned snapshot holds it as False,
\* the snapshot passed in still holds it as True with its message
C31_CopyChangedInputKept ==
    /\ pc = "conditioned"
    /\ result.err = Ptr("ServerException")
    /\ Len(desired.Status.Conditions) = 2
    /\ desired.Status.Conditions[2] =
        [Type |-> ConditionTypeTerminal, Status |-> "True",
         Message |-> Ptr("m")]
    /\ result.ko # Nil
    /\ Deref(result.ko).Status.Conditions[2].Status = "False"

====
